---- MODULE Spec2Model ----
(***************************************************************************)
(* A model of the ZIP rapport route handler (src/unnamed/part_000):        *)
(*   - mapWithConcurrency, the bounded concurrency runner   (SpecMap)      *)
(*   - withTimeout, the timeout envelope                    (SpecTimeout)  *)
(*   - GET, the orchestrator with its process-wide cache    (Spec)         *)
(*   - a fan-out branch of GET under its deadline           (SpecBranch)   *)
(*   - ensureSentence, the sentence normaliser              (SpecSentence) *)
(*   - queryDuckDuckGoSnippets, the snippet source          (SpecSnippets) *)
(*   - fetchStrategicContext, the strategic buckets         (SpecContext)  *)
(*   - fetchLocalPlaces, the local places                   (SpecPlaces)   *)
(*   - callGrok's parser of the model reply                 (SpecParse)    *)
(*   - enrichLocalPlaces, the summaries of the places       (SpecEnrich)   *)
(* JavaScript runs one callback at a time: every action below is one       *)
(* callback (a synchronous call, a promise reaction, a timer, an I/O       *)
(* completion) together with the synchronous code it runs.                 *)
(***************************************************************************)
EXTENDS Integers, Sequences, FiniteSets, TLC

\* ------------------------------------------------------------------------
\* Bounds of the model
\* ------------------------------------------------------------------------
MaxItems == 4
MaxLimit == 3
MaxTimeoutMs == 2
MaxClock == 3
MaxRequests == 2
MaxTime == 3
MaxPlaces == 1
MaxRuns == 3
MaxEntries == 1
MaxSnippetLimit == 2
MaxSnippets == 2
MaxPlaceItems == 2
MaxLines == 2
MaxEnrichPlaces == 4

Min(a, b) == IF a <= b THEN a ELSE b

\* ------------------------------------------------------------------------
\* State
\* ------------------------------------------------------------------------
VARIABLES
    \* mapWithConcurrency (one call)
    items,        \* the input array, 0-based: [0..N-1 -> item]
    limit,        \* the concurrency limit L
    mapper,       \* the mapper's promises: [0..N-1 -> "unstarted"|"pending"|"fulfilled"|"rejected"]
    cursor,       \* let cursor
    results,      \* const results = new Array(N): [0..N-1 -> value or Hole]
    workers,      \* the worker promises: [1..workerCount -> [state, index]]
    joined,       \* Promise.all(workers): [state, error]
    mapCall,      \* the promise mapWithConcurrency returned: [state, value]
    outOfOrder,   \* history: a mapper promise settled before one of an earlier index
    startedLate,  \* history: a mapper invocation began after the call had rejected
    \* withTimeout (one call)
    promise,      \* the wrapped promise: [state, value]
    timeoutMs,    \* the deadline, in clock ticks
    errorMessage, \* the caller's message
    timer,        \* the setTimeout handle: "unset" | "armed" | "fired" | "cleared"
    wrapper,      \* the promise withTimeout returned: [state, value]
    reacted,      \* the then/catch reaction of the wrapped promise has run
    clock,        \* ticks since withTimeout was called
    firstEvent,   \* history: which of success, failure, timeout happened first
    \* the route handler
    cache,        \* const cache = new Map(): [valid ZIP -> entry or NoEntry]
    now,          \* Date.now(), in ticks
    env,          \* process.env as callGrok reads it
    req,          \* the GET invocations: [Requests -> request record]
    \* ensureSentence (one call)
    text,         \* the argument, a string as a sequence of runs of one character
    sentence,     \* the returned string: [state, value]
    \* queryDuckDuckGoSnippets (one call)
    snippetCall,  \* [pc, limit, data, result]
    \* fetchStrategicContext (one call)
    contextCall,  \* [pc, state, via, focus, responses, others, order, entries, result]
    \* fetchLocalPlaces (one call)
    placesCall,   \* [pc, limit, focus, response, others, cursor, inFlight, results, overtaken, result]
    \* callGrok, from the split of the content into lines (one call)
    grokCall,     \* [pc, lines, result]
    \* enrichLocalPlaces (one call)
    enrichCall    \* [pc, places, city, state, tasks, issued, result]

varsMap == <<items, limit, mapper, cursor, results, workers, joined, mapCall,
             outOfOrder, startedLate>>

varsTimeout == <<promise, timeoutMs, errorMessage, timer, wrapper, reacted,
                 clock, firstEvent>>

varsGet == <<cache, now, env, req>>

varsSentence == <<text, sentence>>

varsLookups ==
    <<varsSentence, snippetCall, contextCall, placesCall, grokCall, enrichCall>>

vars == <<varsMap, varsTimeout, varsGet, varsLookups>>

\* What each component's actions leave alone.
OtherThanMap == <<varsTimeout, varsGet, varsLookups>>
OtherThanTimeout == <<varsMap, varsGet, varsLookups>>
OtherThanGet == <<varsMap, varsTimeout, varsLookups>>
OtherThanSentence == <<varsMap, varsTimeout, varsGet, snippetCall, contextCall,
                       placesCall, grokCall, enrichCall>>
OtherThanSnippets == <<varsMap, varsTimeout, varsGet, varsSentence, contextCall,
                       placesCall, grokCall, enrichCall>>
OtherThanContext == <<varsMap, varsTimeout, varsGet, varsSentence, snippetCall,
                      placesCall, grokCall, enrichCall>>
OtherThanPlaces == <<varsMap, varsTimeout, varsGet, varsSentence, snippetCall,
                     contextCall, grokCall, enrichCall>>
OtherThanParse == <<varsMap, varsTimeout, varsGet, varsSentence, snippetCall,
                    contextCall, placesCall,
                    enrichCall>>
OtherThanEnrich == <<varsMap, varsTimeout, varsGet, varsSentence, snippetCall,
                     contextCall, placesCall, grokCall>>

NoValue == "none"

\* ------------------------------------------------------------------------
\* withTimeout
\* ------------------------------------------------------------------------
Messages == {"Geo lookup timed out.", "Strategic context lookup timed out.",
             "OSM lookup timed out."}
PromiseValues == {"v1", "v2"}
PromiseErrors == {"e1", "e2"}

Pending == [state |-> "pending", value |-> NoValue]
Fulfilled(v) == [state |-> "fulfilled", value |-> v]
Rejected(e) == [state |-> "rejected", value |-> e]

\* A promise that takes every outcome it is given, the last one staying.
SettleAgain(p, outcome) == outcome

\* resolve(value) / reject(err) of a promise: only a pending promise settles.
Settle(p, outcome) == IF p.state = "pending" THEN outcome ELSE p

\* new Error(errorMessage); an error with a message of its own (a mutant).
FixedTimeoutError(message) == <<"Error", "Operation timed out.">>
TimeoutError(message) == <<"Error", message>>

\* The envelope before any call, as the other components' specifications see it.
TimeoutIdle ==
    /\ promise = Pending
    /\ timeoutMs = 1
    /\ errorMessage = "Geo lookup timed out."
    /\ timer = "unset"
    /\ wrapper = [state |-> "notCalled", value |-> NoValue]
    /\ reacted = FALSE
    /\ clock = 0
    /\ firstEvent = "none"

\* The wrapped promise may have settled before it is handed to withTimeout.
InitTimeout ==
    /\ promise \in {Pending} \cup {Fulfilled(v) : v \in PromiseValues}
                          \cup {Rejected(e) : e \in PromiseErrors}
    /\ timeoutMs \in 1..MaxTimeoutMs
    /\ errorMessage \in Messages
    /\ timer = "unset"
    /\ wrapper = [state |-> "notCalled", value |-> NoValue]
    /\ reacted = FALSE
    /\ clock = 0
    /\ firstEvent = IF promise.state = "fulfilled" THEN "success"
                    ELSE IF promise.state = "rejected" THEN "failure"
                    ELSE "none"

\* A reaction of the wrapped promise is queued: promise jobs run before the
\* next timer callback.
ReactionQueued ==
    /\ wrapper.state # "notCalled"
    /\ promise.state # "pending"
    /\ ~reacted

\* withTimeout(promise, timeoutMs, errorMessage): the executor arms the timer
\* and registers the then/catch reactions.
WithTimeoutCall ==
    /\ wrapper.state = "notCalled"
    /\ wrapper' = Pending
    /\ timer' = "armed"
    /\ UNCHANGED <<promise, timeoutMs, errorMessage, reacted, clock, firstEvent>>
    /\ UNCHANGED OtherThanTimeout

\* The wrapped operation settles.
PromiseSettles(outcome) ==
    /\ wrapper.state # "notCalled"
    /\ promise.state = "pending"
    /\ promise' = outcome
    /\ firstEvent' = IF firstEvent # "none" THEN firstEvent
                     ELSE IF outcome.state = "fulfilled" THEN "success"
                     ELSE "failure"
    /\ UNCHANGED <<timeoutMs, errorMessage, timer, wrapper, reacted, clock>>
    /\ UNCHANGED OtherThanTimeout

\* .then((value) => { clearTimeout(timer); resolve(value); })
ThenReaction ==
    /\ ReactionQueued
    /\ promise.state = "fulfilled"
    /\ timer' = IF timer = "armed" THEN "cleared" ELSE timer
    /\ wrapper' = Settle(wrapper, Fulfilled(promise.value))
    /\ reacted' = TRUE
    /\ UNCHANGED <<promise, timeoutMs, errorMessage, clock, firstEvent>>
    /\ UNCHANGED OtherThanTimeout

\* .catch((err) => { clearTimeout(timer); reject(err); })
CatchReaction ==
    /\ ReactionQueued
    /\ promise.state = "rejected"
    /\ timer' = IF timer = "armed" THEN "cleared" ELSE timer
    /\ wrapper' = Settle(wrapper, Rejected(promise.value))
    /\ reacted' = TRUE
    /\ UNCHANGED <<promise, timeoutMs, errorMessage, clock, firstEvent>>
    /\ UNCHANGED OtherThanTimeout

\* setTimeout(() => { reject(new Error(errorMessage)); }, timeoutMs)
TimerFires ==
    /\ timer = "armed"
    /\ clock >= timeoutMs
    /\ ~ReactionQueued
    /\ timer' = "fired"
    /\ wrapper' = Settle(wrapper, Rejected(TimeoutError(errorMessage)))
    /\ firstEvent' = IF firstEvent = "none" THEN "timeout" ELSE firstEvent
    /\ UNCHANGED <<promise, timeoutMs, errorMessage, reacted, clock>>
    /\ UNCHANGED OtherThanTimeout

\* Time passes; a timer never fires early, it may fire late.
TimeoutTick ==
    /\ wrapper.state # "notCalled"
    /\ ~ReactionQueued
    /\ clock < MaxClock
    /\ clock' = clock + 1
    /\ UNCHANGED <<promise, timeoutMs, errorMessage, timer, wrapper, reacted,
                   firstEvent>>
    /\ UNCHANGED OtherThanTimeout

NextTimeout ==
    \/ WithTimeoutCall
    \/ \E v \in PromiseValues : PromiseSettles(Fulfilled(v))
    \/ \E e \in PromiseErrors : PromiseSettles(Rejected(e))
    \/ ThenReaction
    \/ CatchReaction
    \/ TimerFires
    \/ TimeoutTick

\* ------------------------------------------------------------------------
\* mapWithConcurrency
\* ------------------------------------------------------------------------
ItemValues == {"a", "b"}
Hole == "hole"

\* The arrays of N items over ItemValues, N = 0..MaxItems, 0-based.
ItemArrays == UNION {[0..(n - 1) -> ItemValues] : n \in 0..MaxItems}

ArrayLength(a) == Cardinality(DOMAIN a)

\* What mapper(item, index) resolves to when it succeeds, and the error it
\* rejects with when it fails.
MapperResult(item, index) == <<"result", item, index>>
MapperError(index) == <<"error", index>>

\* Math.min(limit, items.length), all workers though limited (a mutant).
WorkerCountAll(l, n) == n
WorkerCount(l, n) == Min(l, n)

\* Array.from({ length: workerCount }, () => worker()): the workers that are
\* started, numbered from 1; one worker per unit of the limit whatever the
\* number of items (a mutant).
WorkersPerLimit(l, n) == 1..l
Workers(l, n) == 1..WorkerCount(l, n)

\* results[index] = value; storing in completion order (a mutant).
StoreInCompletionOrder(res, index, value) ==
    IF \E i \in DOMAIN res : res[i] = Hole
    THEN LET first == CHOOSE i \in DOMAIN res :
                          /\ res[i] = Hole
                          /\ \A j \in DOMAIN res : res[j] = Hole => i <= j
         IN  [res EXCEPT ![first] = value]
    ELSE res
StoreResult(res, index, value) == [res EXCEPT ![index] = value]

\* A worker whose awaited mapper promise rejected: the await throws, the
\* worker's promise rejects, and Promise.all rejects with the first such
\* error. A worker that catches and goes on (a mutant).
WorkerSwallowsRejection(w, index) ==
    /\ workers' = [workers EXCEPT ![w] = [state |-> "done", index |-> index]]
    /\ joined' = IF /\ joined.state = "pending"
                    /\ \A v \in DOMAIN workers : v # w => workers[v].state = "done"
                 THEN [state |-> "fulfilled", error |-> NoValue]
                 ELSE joined
\* A failure that stops every worker of the call (a mutant).
WorkerOnRejectionStopsAll(w, index) ==
    /\ workers' = [v \in DOMAIN workers |->
                     IF workers[v].state = "awaiting"
                     THEN [state |-> "failed", index |-> workers[v].index]
                     ELSE workers[v]]
    /\ joined' = IF joined.state = "pending"
                 THEN [state |-> "rejected", error |-> MapperError(index)]
                 ELSE joined
WorkerOnRejection(w, index) ==
    /\ workers' = [workers EXCEPT ![w] = [state |-> "failed", index |-> index]]
    /\ joined' = IF joined.state = "pending"
                 THEN [state |-> "rejected", error |-> MapperError(index)]
                 ELSE joined

\* The runner before any call, as the other components' specifications see it.
MapIdle ==
    /\ items = <<>>
    /\ limit = 1
    /\ mapper = <<>>
    /\ cursor = 0
    /\ results = <<>>
    /\ workers = <<>>
    /\ joined = [state |-> "pending", error |-> NoValue]
    /\ mapCall = [state |-> "notCalled", value |-> NoValue]
    /\ outOfOrder = FALSE
    /\ startedLate = FALSE

InitMap ==
    /\ items \in ItemArrays
    /\ limit \in 1..MaxLimit
    /\ mapper = [i \in DOMAIN items |-> "unstarted"]
    /\ cursor = 0
    /\ results = <<>>
    /\ workers = <<>>
    /\ joined = [state |-> "pending", error |-> NoValue]
    /\ mapCall = [state |-> "notCalled", value |-> NoValue]
    /\ outOfOrder = FALSE
    /\ startedLate = FALSE

\* mapWithConcurrency(items, limit, mapper) up to its await: the empty input
\* returns at once; otherwise each worker() runs to its first await, so
\* worker k takes index k - 1 and starts the mapper on it, or breaks at once
\* when that index is past the end.
MapCall ==
    /\ mapCall.state = "notCalled"
    /\ LET n == ArrayLength(items)
           started == Workers(limit, n)
           workerCount == Cardinality(started)
       IN  IF n = 0
           THEN /\ mapCall' = [state |-> "fulfilled", value |-> <<>>]
                /\ UNCHANGED <<mapper, cursor, results, workers, joined>>
           ELSE /\ mapCall' = [state |-> "pending", value |-> NoValue]
                /\ results' = [i \in 0..(n - 1) |-> Hole]
                /\ cursor' = workerCount
                /\ workers' = [w \in started |->
                                 [state |-> IF w - 1 < n THEN "awaiting" ELSE "done",
                                  index |-> w - 1]]
                /\ mapper' = [i \in DOMAIN items |->
                                 IF i < workerCount THEN "pending" ELSE "unstarted"]
                /\ UNCHANGED joined
    /\ UNCHANGED <<items, limit, outOfOrder, startedLate>>
    /\ UNCHANGED OtherThanMap

\* The promise of mapper(items[i], i) settles.
MapperSettles(i, outcome) ==
    /\ mapper[i] = "pending"
    /\ mapper' = [mapper EXCEPT ![i] = outcome]
    /\ outOfOrder' = (outOfOrder \/ \E j \in DOMAIN mapper : j < i /\ mapper[j] = "pending")
    /\ UNCHANGED <<items, limit, cursor, results, workers, joined, mapCall,
                   startedLate>>
    /\ UNCHANGED OtherThanMap

\* A worker resumes after `await mapper(...)`: it stores the value and goes
\* round the loop (takes the cursor, advances it, stops past the end or
\* starts the next mapper), or the await throws.
WorkerResumes(w) ==
    /\ w \in DOMAIN workers
    /\ workers[w].state = "awaiting"
    /\ LET index == workers[w].index
           n == ArrayLength(items)
       IN  /\ mapper[index] # "pending"
           /\ IF mapper[index] = "rejected"
              THEN /\ WorkerOnRejection(w, index)
                   /\ UNCHANGED <<results, cursor, mapper, startedLate>>
              ELSE /\ results' = StoreResult(results, index,
                                             MapperResult(items[index], index))
                   /\ cursor' = cursor + 1
                   /\ IF cursor >= n
                      THEN /\ workers' = [workers EXCEPT ![w] =
                                            [state |-> "done", index |-> index]]
                           /\ joined' =
                                IF /\ joined.state = "pending"
                                   /\ \A v \in DOMAIN workers :
                                        v # w => workers[v].state = "done"
                                THEN [state |-> "fulfilled", error |-> NoValue]
                                ELSE joined
                           /\ UNCHANGED <<mapper, startedLate>>
                      ELSE /\ workers' = [workers EXCEPT ![w] =
                                            [state |-> "awaiting", index |-> cursor]]
                           /\ mapper' = [mapper EXCEPT ![cursor] = "pending"]
                           /\ startedLate' =
                                (startedLate \/ mapCall.state = "rejected")
                           /\ UNCHANGED joined
    /\ UNCHANGED <<items, limit, mapCall, outOfOrder>>
    /\ UNCHANGED OtherThanMap

\* `await Promise.all(workers); return results`: the call settles.
MapReturns ==
    /\ mapCall.state = "pending"
    /\ joined.state # "pending"
    /\ mapCall' = IF joined.state = "fulfilled"
                  THEN [state |-> "fulfilled", value |-> results]
                  ELSE [state |-> "rejected", value |-> joined.error]
    /\ UNCHANGED <<items, limit, mapper, cursor, results, workers, joined,
                   outOfOrder, startedLate>>
    /\ UNCHANGED OtherThanMap

NextMap ==
    \/ MapCall
    \/ \E i \in DOMAIN items : \E outcome \in {"fulfilled", "rejected"} :
          MapperSettles(i, outcome)
    \/ \E w \in 1..MaxItems : WorkerResumes(w)
    \/ MapReturns


\* ------------------------------------------------------------------------
\* GET /zip/{zip}: the orchestrator and its cache
\* ------------------------------------------------------------------------
Requests == 1..MaxRequests

\* CACHE_TTL_MS, in ticks of `now` (the source's default is six hours).
CACHE_TTL_MS == 2

\* Strings whose characters matter are sequences of characters; params.zip
\* may be missing altogether.
Str(chars) == [defined |-> TRUE, chars |-> chars]
Undefined == [defined |-> FALSE, chars |-> <<>>]

Digits == {"0", "1", "2", "3", "4", "5", "6", "7", "8", "9"}

ValidZips == {Str(<<"8", "5", "2", "6", "0">>), Str(<<"0", "0", "0", "0", "0">>)}
InvalidZips == {Undefined,
                Str(<<>>),
                Str(<<"8", "5", "2", "6">>),
                Str(<<"8", "5", "2", "6", "0", "1">>),
                Str(<<"8", "5", "2", "6", "a">>),
                Str(<<"8", "5", "2", "6", "0", "\n">>)}
ZipInputs == ValidZips \cup InvalidZips

\* !zip: undefined and the empty string are falsy.
Falsy(zip) == ~zip.defined \/ zip.chars = <<>>

\* /^\d{5}$/.test(zip); a check of the length alone (a mutant).
ValidateZipLengthOnly(zip) == Len(zip.chars) = 5
validateZip(zip) ==
    /\ Len(zip.chars) = 5
    /\ \A i \in 1..5 : zip.chars[i] \in Digits

\* The environment callGrok reads: the key is checked first, then the URL.
Envs == {"ok", "noApiKey", "noApiUrl", "invalidApiUrl"}

\* What lookupZip returns for a place record: city and state may be empty
\* strings, the coordinates may be null.
\* Its zip is data["post code"] ?? zip: the requested ZIP when the body has
\* no post code or repeats the requested one, else the body's.
OtherPostCode == Str(<<"8", "5", "2", "6", "1">>)
GeoResults ==
    {[city |-> TRUE, state |-> TRUE, coords |-> TRUE, postCode |-> "requested"],
     [city |-> TRUE, state |-> TRUE, coords |-> TRUE, postCode |-> "other"],
     [city |-> TRUE, state |-> FALSE, coords |-> TRUE, postCode |-> "requested"],
     [city |-> TRUE, state |-> TRUE, coords |-> FALSE, postCode |-> "requested"]}

\* What res.json() of the geocoding reply gives: unparsable JSON, a body
\* without place records, or a body whose first record is the geo result.
NoGeo == [city |-> FALSE, state |-> FALSE, coords |-> FALSE, postCode |-> "requested"]
GeoBodies == {[kind |-> "invalidJson", geo |-> NoGeo],
              [kind |-> "noPlaces", geo |-> NoGeo]}
             \cup {[kind |-> "places", geo |-> g] : g \in GeoResults}

\* emptyStrategicBuckets() and a bucket set with sentences in it.
EmptyBuckets == "emptyBuckets"
SomeBuckets == "someBuckets"
StrategicContexts == {EmptyBuckets, SomeBuckets}

\* The place lists fetchLocalPlaces returns, by their length.
PlaceLists == 0..MaxPlaces

\* A place's summary: summarizePlace(place) or a fetched highlight.
Summaries == {"generic", "highlight"}
GenericSummaries(n) == [i \in 1..n |-> "generic"]
EnhancedPlaces(n) == [1..n -> Summaries]

\* What callGrok parses out of the model's reply, and the replies it
\* rejects: unparsable JSON, no string content, nothing to parse out.
Syntheses == {"synthesis"}
GrokContents == {"invalidJson", "invalidContent", "emptySynthesis"} \cup Syntheses

\* No payload and no detail, in the shapes of a payload and of a message.
NoPayload ==
    [zip |-> Undefined, city |-> FALSE, state |-> FALSE,
     knowledge_brief |-> NoValue, strategic_context |-> NoValue,
     local_places |-> <<>>]
NoDetail == <<>>

NoEntry == [timestamp |-> -1, payload |-> NoPayload]
NoResponse == [status |-> 0, detail |-> NoDetail, payload |-> NoPayload]

\* NextResponse.json(body, {status})
ErrorResponse(status, detail) ==
    [status |-> status, detail |-> detail, payload |-> NoPayload]
PayloadResponse(payload) ==
    [status |-> 200, detail |-> NoDetail, payload |-> payload]

\* The error messages the handler can surface.
MsgBadZip == <<"ZIP code must be 5 digits.">>
\* `ZIP ${zip} not found.`; a message that leaves the ZIP out (a mutant).
MsgNotFoundNoZip(zip) == <<"ZIP ", " not found.">>
MsgNotFound(zip) == <<"ZIP ", zip, " not found.">>
MsgGeoTimeout == <<"Geo lookup timed out.">>
MsgAborted == <<"This operation was aborted">>
MsgNetwork == <<"fetch failed">>
MsgGeoStatus == <<"Zippopotam lookup failed with status ", 500>>
MsgBadJson == <<"Unexpected token in JSON">>
MsgNoApiKey == <<"GROK_API_KEY is not configured.">>
MsgNoApiUrl == <<"GROK_API_URL (or GROK_API_BASE_URL) is not configured.">>
MsgBadApiUrl == <<"GROK_API_URL is not a valid URL.">>
MsgGrokStatus(preview) == <<"Grok responded with status ", 500, preview>>
MsgGrokContent == <<"Grok returned invalid content payload.">>
MsgGrokEmpty == <<"Grok returned an empty synthesis payload.">>

\* The first 500 characters of an upstream error body, by what they hold.
ErrorPreviews == {"", "Set GROK_API_KEY on the gateway"}

\* message.includes("GROK_API_KEY")
IncludesApiKey(message) ==
    \/ message = MsgNoApiKey
    \/ message = MsgGrokStatus("Set GROK_API_KEY on the gateway")

\* The catch block of GET: 503 for a message naming the key, else 502.
FailureResponse(message) ==
    ErrorResponse(IF IncludesApiKey(message) THEN 503 ELSE 502, message)

\* One invocation of GET: where it is suspended (pc), its locals, the
\* response it returned and, as history, the upstream calls and cache
\* accesses it made (trace).
IdleRequest ==
    [pc |-> "idle", zip |-> Undefined, now |-> 0,
     geo |-> NoGeo, ctx |-> NoValue, plc |-> -1, places |-> <<>>,
     response |-> NoResponse, trace |-> {}]

\* The handler before any request, as the other components' specifications
\* see it.
GetIdle ==
    /\ cache = [z \in ValidZips |-> NoEntry]
    /\ now = 0
    /\ env = "ok"
    /\ req = [r \in Requests |-> IdleRequest]

InitGet ==
    /\ cache = [z \in ValidZips |-> NoEntry]
    /\ now = 0
    /\ env \in Envs
    /\ req = [r \in Requests |-> IdleRequest]

\* return NextResponse.json(...): the handler's locals go out of scope.
Respond(q, response) ==
    [q EXCEPT !.pc = "done", !.response = response,
              !.geo = NoGeo, !.ctx = NoValue, !.plc = -1, !.places = <<>>]

\* A payload that keeps the places of the entry the cache already holds.
PayloadOverCachedPlaces(q, synthesis) ==
    [zip |-> IF q.geo.postCode = "other" THEN OtherPostCode ELSE q.zip,
     city |-> q.geo.city, state |-> q.geo.state,
     knowledge_brief |-> synthesis,
     strategic_context |-> q.ctx,
     local_places |-> IF cache[q.zip].timestamp >= 0
                      THEN cache[q.zip].payload.local_places
                      ELSE q.places]

\* A payload assembled without the strategic context.
PayloadWithoutContext(q, synthesis) ==
    [zip |-> IF q.geo.postCode = "other" THEN OtherPostCode ELSE q.zip,
     city |-> q.geo.city, state |-> q.geo.state,
     knowledge_brief |-> synthesis,
     strategic_context |-> NoValue,
     local_places |-> q.places]

\* The payload GET assembles (lines 979-994); the synthesis stands for the
\* knowledge brief and the anchors.
Payload(q, synthesis) ==
    [zip |-> IF q.geo.postCode = "other" THEN OtherPostCode ELSE q.zip,
     city |-> q.geo.city, state |-> q.geo.state,
     knowledge_brief |-> synthesis,
     strategic_context |-> q.ctx,
     local_places |-> q.places]

\* The schema check of a cache hit: the payload's strategic context has an
\* iconic_destinations array; a check nothing passes (a mutant).
SchemaCheckFails(payload) == FALSE
PassesSchemaCheck(payload) == payload.strategic_context \in StrategicContexts

\* cached && now - cached.timestamp < CACHE_TTL_MS; a TTL that still serves
\* the entry at the boundary (a mutant).
HasEntry(entry) == entry.timestamp >= 0
FreshAtBoundary(entry, t) == HasEntry(entry) /\ t - entry.timestamp <= CACHE_TTL_MS
Fresh(entry, t) == HasEntry(entry) /\ t - entry.timestamp < CACHE_TTL_MS

\* cache.get(zip): undefined for a key the Map does not hold.
CacheGet(c, zip) == IF zip \in DOMAIN c THEN c[zip] ELSE NoEntry

\* A cache check that deletes the entry it finds expired.
CacheWithoutExpired(c, zip, t) ==
    IF HasEntry(CacheGet(c, zip)) /\ ~Fresh(CacheGet(c, zip), t)
    THEN [c EXCEPT ![zip] = NoEntry]
    ELSE c

\* The cache after the check of lines 904-915: cache.get only reads, an
\* expired entry stays where it is.
CacheAfterCheck(c, zip, t) == c

\* cache.set(zip, { timestamp: now, payload }); a write that lands on every
\* key (a mutant).
CacheSetEveryKey(c, zip, timestamp, payload) ==
    [z \in DOMAIN c |-> [timestamp |-> timestamp, payload |-> payload]]
\* A write stamped with the time of the write, Date.now() read anew.
CacheSetAtWriteTime(c, zip, timestamp, payload) ==
    [c EXCEPT ![zip] = [timestamp |-> now, payload |-> payload]]
CacheSet(c, zip, timestamp, payload) ==
    [c EXCEPT ![zip] = [timestamp |-> timestamp, payload |-> payload]]

\* callGrok up to its fetch: the configuration checks, then the POST.
StartGrok(q) ==
    IF env = "noApiKey" THEN Respond(q, FailureResponse(MsgNoApiKey))
    ELSE IF env = "noApiUrl" THEN Respond(q, FailureResponse(MsgNoApiUrl))
    ELSE IF env = "invalidApiUrl" THEN Respond(q, FailureResponse(MsgBadApiUrl))
    ELSE [q EXCEPT !.pc = "grokHeaders", !.trace = @ \cup {"grok"}]

\* A handler that calls the model without awaiting the enrichment.
StartEnrichNotAwaited(q) == StartGrok(q)

\* enrichLocalPlaces: snippet queries for the first places when city and
\* state are known, the generic summary otherwise; then callGrok.
StartEnrich(q) ==
    IF q.plc > 0 /\ q.geo.city /\ q.geo.state
    THEN [q EXCEPT !.pc = "enrich", !.trace = @ \cup {"enrich"}]
    ELSE StartGrok([q EXCEPT !.places = GenericSummaries(q.plc)])

\* await Promise.all([...]): on once both branches have a value; a join
\* that fails the request when a branch brought its default (a mutant).
AfterFanoutFailing(q) ==
    IF q.pc = "fanout" /\ (q.ctx = EmptyBuckets \/ q.plc = 0)
    THEN Respond(q, FailureResponse(MsgAborted))
    ELSE IF q.pc = "fanout" /\ q.ctx # NoValue /\ q.plc # -1
    THEN StartEnrich(q)
    ELSE q
AfterFanout(q) ==
    IF q.pc = "fanout" /\ q.ctx # NoValue /\ q.plc # -1
    THEN StartEnrich(q)
    ELSE q

\* Lines 930-947 up to the await: both branches start; a geo result without
\* a state has its empty buckets at once, one without coordinates its empty
\* place list.
StartFanout(q, geo) ==
    AfterFanout(
        [q EXCEPT !.pc = "fanout",
                  !.geo = geo,
                  !.ctx = IF geo.state THEN NoValue ELSE EmptyBuckets,
                  !.plc = IF geo.coords THEN -1 ELSE 0,
                  !.trace = @ \cup (IF geo.state THEN {"snippet"} ELSE {})
                              \cup (IF geo.coords THEN {"place"} ELSE {})])

\* The 404 of GET: lookupZip returned null.
NotFound(q) == Respond(q, ErrorResponse(404, MsgNotFound(q.zip)))

\* GET from its entry to its first await (lines 895-922). Requests are
\* numbered in the order they arrive.
GetRequest(r, zip) ==
    /\ req[r].pc = "idle"
    /\ \A s \in Requests : s < r => req[s].pc # "idle"
    /\ cache' = IF Falsy(zip) \/ ~validateZip(zip) THEN cache
                ELSE CacheAfterCheck(cache, zip, now)
    /\ LET q == [req[r] EXCEPT !.zip = zip]
       IN  IF Falsy(zip) \/ ~validateZip(zip)
           THEN req' = [req EXCEPT ![r] = Respond(q, ErrorResponse(400, MsgBadZip))]
           ELSE LET cached == CacheGet(cache, zip)
                    t == now
                    looked == [q EXCEPT !.now = t, !.trace = @ \cup {"cache.get"}]
                IN  IF Fresh(cached, t) /\ PassesSchemaCheck(cached.payload)
                    THEN req' = [req EXCEPT ![r] =
                                   Respond(looked, PayloadResponse(cached.payload))]
                    ELSE req' = [req EXCEPT ![r] =
                                   [looked EXCEPT !.pc = "geoHeaders",
                                                  !.trace = @ \cup {"geo"}]]
    /\ UNCHANGED <<now, env>>
    /\ UNCHANGED OtherThanGet

\* The geocoding upstream answers (or the transport fails) while the fetch
\* of lookupZip is pending: 404 is null, another non-success status and a
\* transport error throw, a success goes on to read the body.
GeoResponds(r, outcome) ==
    /\ req[r].pc = "geoHeaders"
    /\ LET q == req[r]
       IN  req' = [req EXCEPT ![r] =
             CASE outcome = "404" -> NotFound(q)
               [] outcome = "500" -> Respond(q, FailureResponse(MsgGeoStatus))
               [] outcome = "networkError" -> Respond(q, FailureResponse(MsgNetwork))
               [] outcome = "200" -> [q EXCEPT !.pc = "geoBody"]]
    /\ UNCHANGED <<cache, now, env>>
    /\ UNCHANGED OtherThanGet

\* fetchWithTimeout's timer aborts the pending geo fetch (8000 ms); it was
\* set before withTimeout's own 8000 ms timer, so it fires first.
GeoAborts(r) ==
    /\ req[r].pc = "geoHeaders"
    /\ req' = [req EXCEPT ![r] = Respond(@, FailureResponse(MsgAborted))]
    /\ UNCHANGED <<cache, now, env>>
    /\ UNCHANGED OtherThanGet

\* res.json() of lookupZip settles: unparsable JSON throws, no place record
\* is null, else the first record is the geo result.
GeoBodyArrives(r, data) ==
    /\ req[r].pc = "geoBody"
    /\ LET q == req[r]
       IN  req' = [req EXCEPT ![r] =
             IF data.kind = "invalidJson"
             THEN Respond(q, FailureResponse(MsgBadJson))
             ELSE IF data.kind = "noPlaces" THEN NotFound(q)
             ELSE StartFanout(q, data.geo)]
    /\ UNCHANGED <<cache, now, env>>
    /\ UNCHANGED OtherThanGet

\* withTimeout's timer of the geo lookup fires; fetchWithTimeout's own timer
\* is cleared once the response headers are in, so only a body still being
\* read is left pending then.
GeoDeadline(r) ==
    /\ req[r].pc = "geoBody"
    /\ req' = [req EXCEPT ![r] = Respond(@, FailureResponse(MsgGeoTimeout))]
    /\ UNCHANGED <<cache, now, env>>
    /\ UNCHANGED OtherThanGet

\* fetchStrategicContext resolves with its buckets before the deadline.
ContextCompletes(r, buckets) ==
    /\ req[r].pc = "fanout"
    /\ req[r].ctx = NoValue
    /\ req' = [req EXCEPT ![r] = AfterFanout([@ EXCEPT !.ctx = buckets])]
    /\ UNCHANGED <<cache, now, env>>
    /\ UNCHANGED OtherThanGet

\* The 20000 ms timer of the context branch fires: the catch substitutes
\* emptyStrategicBuckets().
ContextDeadline(r) ==
    /\ req[r].pc = "fanout"
    /\ req[r].ctx = NoValue
    /\ req' = [req EXCEPT ![r] = AfterFanout([@ EXCEPT !.ctx = EmptyBuckets])]
    /\ UNCHANGED <<cache, now, env>>
    /\ UNCHANGED OtherThanGet

\* fetchLocalPlaces resolves with its places before the deadline.
PlacesComplete(r, n) ==
    /\ req[r].pc = "fanout"
    /\ req[r].plc = -1
    /\ req' = [req EXCEPT ![r] = AfterFanout([@ EXCEPT !.plc = n])]
    /\ UNCHANGED <<cache, now, env>>
    /\ UNCHANGED OtherThanGet

\* The 20000 ms timer of the place branch fires: the catch substitutes [].
PlacesDeadline(r) ==
    /\ req[r].pc = "fanout"
    /\ req[r].plc = -1
    /\ req' = [req EXCEPT ![r] = AfterFanout([@ EXCEPT !.plc = 0])]
    /\ UNCHANGED <<cache, now, env>>
    /\ UNCHANGED OtherThanGet

\* A highlight query of enrichLocalPlaces has its response headers:
\* fetchWithTimeout clears its timer, and response.text() of
\* queryDuckDuckGoSnippets is read under no deadline.
EnrichResponds(r) ==
    /\ req[r].pc = "enrich"
    /\ req' = [req EXCEPT ![r].pc = "enrichBody"]
    /\ UNCHANGED <<cache, now, env>>
    /\ UNCHANGED OtherThanGet

\* fetchWithTimeout's 8000 ms timers abort the highlight queries that wait
\* for their headers: each returns [], and the tasks resolve with the
\* summaries they have.
EnrichAborts(r, summaries) ==
    /\ req[r].pc = "enrich"
    /\ summaries \in EnhancedPlaces(req[r].plc)
    /\ req' = [req EXCEPT ![r] = StartGrok([@ EXCEPT !.places = summaries])]
    /\ UNCHANGED <<cache, now, env>>
    /\ UNCHANGED OtherThanGet

\* Promise.all(tasks) of enrichLocalPlaces resolves.
EnrichCompletes(r, summaries) ==
    /\ req[r].pc \in {"enrich", "enrichBody"}
    /\ summaries \in EnhancedPlaces(req[r].plc)
    /\ req' = [req EXCEPT ![r] = StartGrok([@ EXCEPT !.places = summaries])]
    /\ UNCHANGED <<cache, now, env>>
    /\ UNCHANGED OtherThanGet

\* The model upstream answers (or the transport fails) while callGrok's
\* fetch is pending.
GrokResponds(r, outcome) ==
    /\ req[r].pc = "grokHeaders"
    /\ LET q == req[r]
       IN  req' = [req EXCEPT ![r] =
             CASE outcome = "networkError" -> Respond(q, FailureResponse(MsgNetwork))
               [] outcome = "500" -> [q EXCEPT !.pc = "grokErrorBody"]
               [] outcome = "200" -> [q EXCEPT !.pc = "grokBody"]]
    /\ UNCHANGED <<cache, now, env>>
    /\ UNCHANGED OtherThanGet

\* fetchWithTimeout's 45000 ms timer aborts the pending model call.
GrokAborts(r) ==
    /\ req[r].pc = "grokHeaders"
    /\ req' = [req EXCEPT ![r] = Respond(@, FailureResponse(MsgAborted))]
    /\ UNCHANGED <<cache, now, env>>
    /\ UNCHANGED OtherThanGet

\* response.text() of a non-success reply settles: the preview goes into
\* the message.
GrokErrorBodyArrives(r, preview) ==
    /\ req[r].pc = "grokErrorBody"
    /\ req' = [req EXCEPT ![r] = Respond(@, FailureResponse(MsgGrokStatus(preview)))]
    /\ UNCHANGED <<cache, now, env>>
    /\ UNCHANGED OtherThanGet

\* response.json() of the model's reply settles and is parsed; a synthesis
\* is assembled into the payload, cached under the request's ZIP with the
\* time of the cache check, and returned.
GrokBodyArrives(r, content) ==
    /\ req[r].pc = "grokBody"
    /\ LET q == req[r]
       IN  IF content = "invalidJson"
           THEN /\ req' = [req EXCEPT ![r] = Respond(q, FailureResponse(MsgBadJson))]
                /\ UNCHANGED cache
           ELSE IF content = "invalidContent"
           THEN /\ req' = [req EXCEPT ![r] = Respond(q, FailureResponse(MsgGrokContent))]
                /\ UNCHANGED cache
           ELSE IF content = "emptySynthesis"
           THEN /\ req' = [req EXCEPT ![r] = Respond(q, FailureResponse(MsgGrokEmpty))]
                /\ UNCHANGED cache
           ELSE LET payload == Payload(q, content)
                IN  /\ cache' = CacheSet(cache, q.zip, q.now, payload)
                    /\ req' = [req EXCEPT ![r] =
                                 Respond([q EXCEPT !.trace = @ \cup {"cache.set"}],
                                         PayloadResponse(payload))]
    /\ UNCHANGED <<now, env>>
    /\ UNCHANGED OtherThanGet

\* Time passes.
Tick ==
    /\ now < MaxTime
    /\ now' = now + 1
    /\ UNCHANGED <<cache, env, req>>
    /\ UNCHANGED OtherThanGet

Next ==
    \/ \E r \in Requests : \E zip \in ZipInputs : GetRequest(r, zip)
    \/ \E r \in Requests : \E outcome \in {"404", "500", "networkError", "200"} :
          GeoResponds(r, outcome)
    \/ \E r \in Requests : GeoAborts(r)
    \/ \E r \in Requests : \E data \in GeoBodies : GeoBodyArrives(r, data)
    \/ \E r \in Requests : GeoDeadline(r)
    \/ \E r \in Requests : \E buckets \in StrategicContexts :
          ContextCompletes(r, buckets)
    \/ \E r \in Requests : ContextDeadline(r)
    \/ \E r \in Requests : \E n \in PlaceLists : PlacesComplete(r, n)
    \/ \E r \in Requests : PlacesDeadline(r)
    \/ \E r \in Requests : \E n \in PlaceLists : \E summaries \in EnhancedPlaces(n) :
          EnrichCompletes(r, summaries)
    \/ \E r \in Requests : EnrichResponds(r)
    \/ \E r \in Requests : \E n \in PlaceLists : \E summaries \in EnhancedPlaces(n) :
          EnrichAborts(r, summaries)
    \/ \E r \in Requests : \E outcome \in {"networkError", "500", "200"} :
          GrokResponds(r, outcome)
    \/ \E r \in Requests : GrokAborts(r)
    \/ \E r \in Requests : \E preview \in ErrorPreviews :
          GrokErrorBodyArrives(r, preview)
    \/ \E r \in Requests : \E content \in GrokContents :
          GrokBodyArrives(r, content)
    \/ Tick

\* The steps of one request.
RequestStep(r) ==
    \/ \E zip \in ZipInputs : GetRequest(r, zip)
    \/ \E outcome \in {"404", "500", "networkError", "200"} : GeoResponds(r, outcome)
    \/ GeoAborts(r)
    \/ \E data \in GeoBodies : GeoBodyArrives(r, data)
    \/ GeoDeadline(r)
    \/ \E buckets \in StrategicContexts : ContextCompletes(r, buckets)
    \/ ContextDeadline(r)
    \/ \E n \in PlaceLists : PlacesComplete(r, n)
    \/ PlacesDeadline(r)
    \/ \E n \in PlaceLists : \E summaries \in EnhancedPlaces(n) :
          EnrichCompletes(r, summaries)
    \/ EnrichResponds(r)
    \/ \E n \in PlaceLists : \E summaries \in EnhancedPlaces(n) :
          EnrichAborts(r, summaries)
    \/ \E outcome \in {"networkError", "500", "200"} : GrokResponds(r, outcome)
    \/ GrokAborts(r)
    \/ \E preview \in ErrorPreviews : GrokErrorBodyArrives(r, preview)
    \/ \E content \in GrokContents : GrokBodyArrives(r, content)

\* ------------------------------------------------------------------------
\* A fan-out branch of GET (lines 930-947): withTimeout wrapped around
\* fetchStrategicContext / fetchLocalPlaces, which run their queries through
\* mapWithConcurrency. The mappers catch their queries' failures, so a
\* mapper promise is only ever fulfilled and so is the branch's promise.
\* ------------------------------------------------------------------------
BranchMessages == {"Strategic context lookup timed out.", "OSM lookup timed out."}

InitBranch ==
    /\ InitMap
    /\ promise = Pending
    /\ timeoutMs \in 1..MaxTimeoutMs
    /\ errorMessage \in BranchMessages
    /\ timer = "unset"
    /\ wrapper = [state |-> "notCalled", value |-> NoValue]
    /\ reacted = FALSE
    /\ clock = 0
    /\ firstEvent = "none"

\* A promise job is queued: a worker whose mapper promise has settled, the
\* runner whose workers are through, the branch function whose runner has
\* returned, or the envelope's reaction. Timers and I/O completions wait for
\* the promise jobs to drain.
BranchJobQueued ==
    \/ \E w \in DOMAIN workers :
          workers[w].state = "awaiting" /\ mapper[workers[w].index] # "pending"
    \/ mapCall.state = "pending" /\ joined.state # "pending"
    \/ promise.state = "pending" /\ mapCall.state \in {"fulfilled", "rejected"}
    \/ ReactionQueued

\* The argument of withTimeout is evaluated: the branch function runs into
\* mapWithConcurrency and its workers start their first queries.
BranchStarts == MapCall

\* withTimeout(...) is called on the branch's promise in the same callback.
BranchWrapped ==
    /\ mapCall.state # "notCalled"
    /\ WithTimeoutCall

\* A query's mapper promise is fulfilled (its upstream calls are over).
BranchMapperSettles(i) ==
    /\ wrapper.state # "notCalled"
    /\ ~BranchJobQueued
    /\ MapperSettles(i, "fulfilled")

BranchWorkerResumes(w) ==
    /\ wrapper.state # "notCalled"
    /\ WorkerResumes(w)

BranchMapReturns ==
    /\ wrapper.state # "notCalled"
    /\ MapReturns

\* The branch function returns what it built from the runner's entries.
BranchReturns ==
    /\ mapCall.state = "fulfilled"
    /\ PromiseSettles(Fulfilled("v1"))

\* The 20000 ms timer of withTimeout fires.
BranchTimerFires ==
    /\ ~BranchJobQueued
    /\ TimerFires

BranchTick ==
    /\ ~BranchJobQueued
    /\ TimeoutTick

NextBranch ==
    \/ BranchStarts
    \/ BranchWrapped
    \/ \E i \in DOMAIN items : BranchMapperSettles(i)
    \/ \E w \in 1..MaxItems : BranchWorkerResumes(w)
    \/ BranchMapReturns
    \/ BranchReturns
    \/ ThenReaction
    \/ BranchTimerFires
    \/ BranchTick

\* ------------------------------------------------------------------------
\* Strings. A string is a sequence of runs [c, n]: n >= 1 copies of the
\* character c, adjacent runs of different characters, so that two strings
\* are equal exactly when their run sequences are. Lengths are counted in
\* characters as String.length counts them.
\* ------------------------------------------------------------------------
Letters == {"a", "A", "b"}
Whitespace == {" ", "\n"}
Terminal == {".", "!", "?"}
Ellipsis == "U+2026"
Chars == Letters \cup Whitespace \cup Terminal \cup {Ellipsis}

Run(c, n) == [c |-> c, n |-> n]

EmptyString == <<>>

\* s + t
Concat(s, t) ==
    IF s = <<>> THEN t
    ELSE IF t = <<>> THEN s
    ELSE IF s[Len(s)].c = t[1].c
         THEN SubSeq(s, 1, Len(s) - 1)
              \o <<Run(t[1].c, s[Len(s)].n + t[1].n)>> \o Tail(t)
         ELSE s \o t

\* s.length
RECURSIVE Length(_)
Length(s) == IF s = <<>> THEN 0 ELSE s[1].n + Length(Tail(s))

\* s.slice(0, k)
RECURSIVE Slice(_, _)
Slice(s, k) ==
    IF s = <<>> \/ k <= 0 THEN <<>>
    ELSE IF s[1].n >= k THEN <<Run(s[1].c, k)>>
    ELSE <<s[1]>> \o Slice(Tail(s), k - s[1].n)

\* s.trim()
RECURSIVE TrimStart(_)
TrimStart(s) ==
    IF s = <<>> THEN s
    ELSE IF s[1].c \in Whitespace THEN TrimStart(Tail(s))
    ELSE s

RECURSIVE TrimEnd(_)
TrimEnd(s) ==
    IF s = <<>> THEN s
    ELSE IF s[Len(s)].c \in Whitespace THEN TrimEnd(SubSeq(s, 1, Len(s) - 1))
    ELSE s

Trim(s) == TrimEnd(TrimStart(s))

\* s.replace(/\s+/g, " "): every maximal stretch of whitespace becomes one
\* space.
RECURSIVE CollapseWhitespace(_)
CollapseWhitespace(s) ==
    IF s = <<>> THEN <<>>
    ELSE LET rest == CollapseWhitespace(Tail(s))
         IN  IF s[1].c \in Whitespace
             THEN IF rest # <<>> /\ rest[1].c = " " THEN rest
                  ELSE <<Run(" ", 1)>> \o rest
             ELSE <<s[1]>> \o rest

\* s.toLowerCase()
LowerChar(c) == IF c = "A" THEN "a" ELSE c

RECURSIVE toLowerCase(_)
toLowerCase(s) ==
    IF s = <<>> THEN <<>>
    ELSE Concat(<<Run(LowerChar(s[1].c), s[1].n)>>, toLowerCase(Tail(s)))

\* /[.!?]$/.test(s)
EndsWithTerminal(s) == s # <<>> /\ s[Len(s)].c \in Terminal

\* ------------------------------------------------------------------------
\* normalizeBlurb and ensureSentence
\* ------------------------------------------------------------------------
normalizeBlurb(s) == Trim(CollapseWhitespace(s))

ensureSentence(s) ==
    LET trimmed == normalizeBlurb(s)
        clipped == IF Length(trimmed) > 220
                   THEN Concat(Trim(Slice(trimmed, 217)), <<Run(Ellipsis, 1)>>)
                   ELSE trimmed
    IN  IF trimmed = <<>> THEN EmptyString
        ELSE IF EndsWithTerminal(clipped) THEN clipped
        ELSE Concat(clipped, <<Run(".", 1)>>)

\* The strings ensureSentence is given: up to MaxRuns runs whose lengths put
\* the string below, at and above the 217 and 220 character marks.
RunLengths == {1, 2, 216, 217, 218, 219}

Runs == [c : Chars, n : RunLengths]

Strings ==
    {s \in UNION {[1..k -> Runs] : k \in 0..MaxRuns} :
        \A i \in 1..(Len(s) - 1) : s[i].c # s[i + 1].c}

NotReturned == [state |-> "notCalled", value |-> EmptyString]

SentenceIdle ==
    /\ text = EmptyString
    /\ sentence = NotReturned

InitSentence ==
    /\ text \in Strings
    /\ sentence = NotReturned

\* ensureSentence(text) runs to its return.
EnsureSentence ==
    /\ sentence.state = "notCalled"
    /\ sentence' = [state |-> "returned", value |-> ensureSentence(text)]
    /\ UNCHANGED <<text, OtherThanSentence>>

NextSentence == EnsureSentence

\* ------------------------------------------------------------------------
\* queryDuckDuckGoSnippets
\* ------------------------------------------------------------------------
\* The texts of an upstream payload: absent or empty, " a", "A." and "b".
SnippetStrings ==
    {EmptyString,
     <<Run(" ", 1), Run("a", 1)>>,
     <<Run("A", 1), Run(".", 1)>>,
     <<Run("b", 1)>>}

Labels == {EmptyString, <<Run("b", 1)>>}

InfoboxItems == [label : Labels, value : SnippetStrings]

\* An entry of RelatedTopics: null, {Text} or {Topics: [{Text}, ...]}.
RelatedItems ==
    [kind : {"null"}, Text : {EmptyString}, Topics : {<<>>}]
    \cup [kind : {"text"}, Text : SnippetStrings, Topics : {<<>>}]
    \cup [kind : {"topics"}, Text : {EmptyString},
          Topics : UNION {[1..k -> SnippetStrings] : k \in 0..1}]

\* The objects JSON.parse can return for a DuckDuckGoResponse; the info box
\* and the related topics have at most MaxEntries entries together.
Objects ==
    {d \in [kind : {"object"},
            Heading : SnippetStrings,
            AbstractText : SnippetStrings,
            Abstract : SnippetStrings,
            Answer : SnippetStrings,
            Infobox : UNION {[1..k -> InfoboxItems] : k \in 0..MaxEntries},
            RelatedTopics : UNION {[1..k -> RelatedItems] : k \in 0..MaxEntries}] :
        Len(d.Infobox) + Len(d.RelatedTopics) <= MaxEntries}

NoObject ==
    [Heading |-> EmptyString, AbstractText |-> EmptyString,
     Abstract |-> EmptyString, Answer |-> EmptyString,
     Infobox |-> <<>>, RelatedTopics |-> <<>>]

\* What response.text() gives: "", a text that is not JSON, or the text of a
\* JSON value: null, a number, string or boolean, or an object.
RawBodies ==
    {[kind |-> k] @@ NoObject : k \in {"empty", "notJson", "null", "primitive"}}
    \cup Objects

FetchErrors == {"TypeError: fetch failed", "AbortError"}

Returned(list) == [state |-> "fulfilled", value |-> list]

\* The catch block of lines 480-483: the error is logged and [] returned.
Rethrown(error) == [state |-> "rejected", value |-> <<>>]

Caught(error) == Returned(<<>>)

\* A string that is falsy is skipped.
Truthy(s) == s # EmptyString

IfTruthy(s) == IF Truthy(s) THEN <<s>> ELSE <<>>

\* Lines 459-465: `${label}: ${value}` for the entries with a value.
RECURSIVE InfoboxCandidates(_)
InfoboxCandidates(content) ==
    IF content = <<>> THEN <<>>
    ELSE LET item == Head(content)
             prefix == IF Truthy(item.label)
                       THEN Concat(item.label, <<Run(":", 1), Run(" ", 1)>>)
                       ELSE EmptyString
         IN  (IF Truthy(item.value) THEN <<Concat(prefix, item.value)>>
              ELSE <<>>)
             \o InfoboxCandidates(Tail(content))

RECURSIVE NestedBlurbs(_)
NestedBlurbs(topics) ==
    IF topics = <<>> THEN <<>>
    ELSE (IF Truthy(Head(topics))
          THEN IfTruthy(normalizeBlurb(Head(topics)))
          ELSE <<>>)
         \o NestedBlurbs(Tail(topics))

RECURSIVE RelatedBlurbs(_)
RelatedBlurbs(related) ==
    IF related = <<>> THEN <<>>
    ELSE LET item == Head(related)
         IN  (CASE item.kind = "null" -> <<>>
                [] item.kind = "text" -> IfTruthy(normalizeBlurb(item.Text))
                [] item.kind = "topics" -> NestedBlurbs(item.Topics))
             \o RelatedBlurbs(Tail(related))

extractRelatedTopics(raw) == RelatedBlurbs(raw.RelatedTopics)

\* Lines 452-466.
Candidates(data) ==
    IfTruthy(data.Heading) \o IfTruthy(data.AbstractText)
    \o IfTruthy(data.Abstract) \o IfTruthy(data.Answer)
    \o InfoboxCandidates(data.Infobox)
    \o extractRelatedTopics(data)

\* The comparison key of a sentence (line 473).
ExactKey(s) == s

SnippetKey(s) == toLowerCase(s)

\* Lines 468-478: the loop over the candidates, from the state it is in.
RECURSIVE CollectSnippets(_, _, _, _)
CollectSnippets(candidates, snippets, seen, lim) ==
    IF candidates = <<>> THEN snippets
    ELSE LET s == ensureSentence(Head(candidates))
             key == SnippetKey(s)
         IN  IF ~Truthy(s) \/ key \in seen
             THEN CollectSnippets(Tail(candidates), snippets, seen, lim)
             ELSE IF Len(snippets) + 1 >= lim THEN Append(snippets, s)
             ELSE CollectSnippets(Tail(candidates), Append(snippets, s),
                                  seen \cup {key}, lim)

\* Lines 443-479: what the call returns once the body is read.
SnippetsOf(raw, lim) ==
    CASE raw.kind = "empty" -> Returned(<<>>)
      [] raw.kind = "notJson" -> Returned(<<>>)
      [] raw.kind = "null" -> Caught("TypeError")
      [] raw.kind = "primitive" -> Returned(<<>>)
      [] raw.kind = "object" ->
            Returned(CollectSnippets(Candidates(raw), <<>>, {}, lim))

NoSnippetCall ==
    [pc |-> "notCalled", limit |-> 1, data |-> [kind |-> "none"] @@ NoObject,
     result |-> [state |-> "notCalled", value |-> <<>>]]

SnippetsIdle == snippetCall = NoSnippetCall

InitSnippets ==
    \E lim \in 1..MaxSnippetLimit : snippetCall = [NoSnippetCall EXCEPT !.limit = lim]

\* queryDuckDuckGoSnippets(query, limit) runs up to its first await.
SnippetQueryCalled ==
    /\ snippetCall.pc = "notCalled"
    /\ snippetCall' = [snippetCall EXCEPT
                          !.pc = "fetch",
                          !.result = [state |-> "pending", value |-> <<>>]]
    /\ UNCHANGED OtherThanSnippets

\* fetchWithTimeout rejects: a transport error, or the abort after 8000 ms.
SnippetFetchRejects(error) ==
    /\ snippetCall.pc = "fetch"
    /\ snippetCall' = [snippetCall EXCEPT !.pc = "done", !.result = Caught(error)]
    /\ UNCHANGED OtherThanSnippets

\* The response headers arrive.
SnippetResponds(ok) ==
    /\ snippetCall.pc = "fetch"
    /\ snippetCall' =
          IF ok THEN [snippetCall EXCEPT !.pc = "body"]
          ELSE [snippetCall EXCEPT !.pc = "done", !.result = Returned(<<>>)]
    /\ UNCHANGED OtherThanSnippets

\* response.text() rejects.
SnippetBodyRejects ==
    /\ snippetCall.pc = "body"
    /\ snippetCall' = [snippetCall EXCEPT
                          !.pc = "done",
                          !.result = Caught("TypeError: terminated")]
    /\ UNCHANGED OtherThanSnippets

\* response.text() is fulfilled with raw and the rest of the function runs.
SnippetBodyRead(raw) ==
    /\ snippetCall.pc = "body"
    /\ snippetCall' = [snippetCall EXCEPT
                          !.pc = "done",
                          !.data = raw,
                          !.result = SnippetsOf(raw, snippetCall.limit)]
    /\ UNCHANGED OtherThanSnippets

SnippetBodyArrives ==
    /\ snippetCall.pc = "body"
    /\ \E raw \in RawBodies : SnippetBodyRead(raw)

NextSnippets ==
    \/ SnippetQueryCalled
    \/ \E error \in FetchErrors : SnippetFetchRejects(error)
    \/ \E ok \in BOOLEAN : SnippetResponds(ok)
    \/ SnippetBodyRejects
    \/ SnippetBodyArrives

\* ------------------------------------------------------------------------
\* fetchStrategicContext
\* ------------------------------------------------------------------------
\* Lines 146-309: the buckets and their caps; every bucket has 3 templates.
STRATEGIC_QUERIES ==
    <<[key |-> "state_identity", templates |-> 3, limit |-> 2],
      [key |-> "state_trends", templates |-> 3, limit |-> 3],
      [key |-> "seasonal_rhythms", templates |-> 3, limit |-> 3],
      [key |-> "community_traditions", templates |-> 3, limit |-> 3],
      [key |-> "iconic_destinations", templates |-> 3, limit |-> 3],
      [key |-> "outdoor_showstoppers", templates |-> 3, limit |-> 3],
      [key |-> "neighborhood_archetypes", templates |-> 3, limit |-> 3],
      [key |-> "home_projects", templates |-> 3, limit |-> 2],
      [key |-> "economic_momentum", templates |-> 3, limit |-> 3],
      [key |-> "population_growth", templates |-> 3, limit |-> 2],
      [key |-> "desirability_factors", templates |-> 3, limit |-> 3],
      [key |-> "sports_heat", templates |-> 3, limit |-> 3],
      [key |-> "food_and_drink", templates |-> 3, limit |-> 3],
      [key |-> "civic_culture", templates |-> 3, limit |-> 2],
      [key |-> "housing_signals", templates |-> 3, limit |-> 2],
      [key |-> "life_stage_notes", templates |-> 3, limit |-> 2],
      [key |-> "positive_news", templates |-> 3, limit |-> 2],
      [key |-> "emotional_connectors", templates |-> 3, limit |-> 2]>>

\* null, in the shape of a string
Null == <<Run("null", 1)>>

emptyStrategicBucketsWithoutNews ==
    [state_identity |-> <<>>, state_trends |-> <<>>, seasonal_rhythms |-> <<>>,
     community_traditions |-> <<>>, iconic_destinations |-> <<>>,
     outdoor_showstoppers |-> <<>>, neighborhood_archetypes |-> <<>>,
     home_projects |-> <<>>, economic_momentum |-> <<>>,
     population_growth |-> <<>>, desirability_factors |-> <<>>,
     sports_heat |-> <<>>, food_and_drink |-> <<>>, civic_culture |-> <<>>,
     housing_signals |-> <<>>, life_stage_notes |-> <<>>,
     emotional_connectors |-> <<>>, city_snapshot |-> Null]

emptyStrategicBuckets ==
    [state_identity |-> <<>>, state_trends |-> <<>>, seasonal_rhythms |-> <<>>,
     community_traditions |-> <<>>, iconic_destinations |-> <<>>,
     outdoor_showstoppers |-> <<>>, neighborhood_archetypes |-> <<>>,
     home_projects |-> <<>>, economic_momentum |-> <<>>,
     population_growth |-> <<>>, desirability_factors |-> <<>>,
     sports_heat |-> <<>>, food_and_drink |-> <<>>, civic_culture |-> <<>>,
     housing_signals |-> <<>>, life_stage_notes |-> <<>>,
     positive_news |-> <<>>, emotional_connectors |-> <<>>,
     city_snapshot |-> Null]

\* The sentences the snippet calls of a bucket return: "a.", "A.", "b."
\* and "b!".
BucketSentences ==
    {ensureSentence(s) :
        s \in (SnippetStrings \ {EmptyString}) \cup {<<Run("b", 1), Run("!", 1)>>}}

\* What queryDuckDuckGoSnippets(query, lim) can return: at most lim
\* sentences (at most MaxSnippets here) that differ case-insensitively.
SnippetLists(lim) ==
    {l \in UNION {[1..k -> BucketSentences] : k \in 0..Min(lim, MaxSnippets)} :
        \A i, j \in 1..Len(l) :
            i # j => toLowerCase(l[i]) # toLowerCase(l[j])}

\* The settled responses of the 3 queries of a bucket (line 533).
Responses(q) ==
    [1..q.templates -> {Returned(l) : l \in SnippetLists(q.limit)}]

AllFailed == [t \in 1..3 |-> Returned(<<>>)]

AllAlike == [t \in 1..3 |-> Returned(<<ensureSentence(<<Run("b", 1)>>)>>)]

\* The orders in which the 3 queries of a bucket can settle.
SettleOrders ==
    {order \in [1..3 -> 1..3] : \A i, j \in 1..3 : i # j => order[i] # order[j]}

\* An array of the results in the order in which the queries settled.
InSettleOrder(responses, order) == [k \in 1..Len(order) |-> responses[order[k]]]

\* Promise.allSettled (line 533): the results by position of their query,
\* in whatever order the queries settled.
AllSettled(responses, order) == responses

\* The snippet source's behaviour in one call of fetchStrategicContext: the
\* queries of one bucket (focus) get any responses, those of the other
\* buckets all fail or all return the same sentence.
Found(call) ==
    [i \in 1..Len(STRATEGIC_QUERIES) |->
        IF i = call.focus THEN AllSettled(call.responses, call.order)
        ELSE call.others]

\* bucket.includes(snippet)
Includes(bucket, snippet) == \E i \in 1..Len(bucket) : bucket[i] = snippet

\* Lines 541-547, without the test of line 544.
RECURSIVE MergeSnippetsUncapped(_, _, _)
MergeSnippetsUncapped(bucket, value, lim) ==
    IF value = <<>> THEN bucket
    ELSE IF Includes(bucket, Head(value))
         THEN MergeSnippetsUncapped(bucket, Tail(value), lim)
    ELSE MergeSnippetsUncapped(Append(bucket, Head(value)), Tail(value), lim)

\* Lines 541-547: the snippets of one response go into the bucket.
RECURSIVE MergeSnippets(_, _, _)
MergeSnippets(bucket, value, lim) ==
    IF value = <<>> THEN bucket
    ELSE IF Includes(bucket, Head(value))
         THEN MergeSnippets(bucket, Tail(value), lim)
    ELSE IF Len(bucket) + 1 >= lim THEN Append(bucket, Head(value))
    ELSE MergeSnippets(Append(bucket, Head(value)), Tail(value), lim)

\* Lines 537-551: the loop over the settled responses.
RECURSIVE MergeResponses(_, _, _)
MergeResponses(bucket, responses, lim) ==
    IF responses = <<>> THEN bucket
    ELSE IF Head(responses).state # "fulfilled"
         THEN MergeResponses(bucket, Tail(responses), lim)
    ELSE LET merged == MergeSnippets(bucket, Head(responses).value, lim)
         IN  IF Len(merged) >= lim THEN merged
             ELSE MergeResponses(merged, Tail(responses), lim)

\* Lines 524-554: the mapper for the i-th entry of STRATEGIC_QUERIES.
BucketEntry(i, found) ==
    <<STRATEGIC_QUERIES[i].key,
      MergeResponses(<<>>, found[i], STRATEGIC_QUERIES[i].limit)>>

\* Lines 557-560.
RECURSIVE AssignEntries(_, _)
AssignEntries(buckets, entries) ==
    IF entries = <<>> THEN buckets
    ELSE AssignEntries((Head(entries)[1] :> Head(entries)[2]) @@ buckets,
                       Tail(entries))

\* An order that looks at the state's trends before its identity.
SnapshotOrderTrendsFirst ==
    <<"state_trends", "state_identity", "community_traditions",
      "iconic_destinations", "outdoor_showstoppers", "neighborhood_archetypes",
      "food_and_drink", "emotional_connectors", "positive_news">>

\* Lines 562-572.
SnapshotOrder ==
    <<"state_identity", "state_trends", "community_traditions",
      "iconic_destinations", "outdoor_showstoppers", "neighborhood_archetypes",
      "food_and_drink", "emotional_connectors", "positive_news">>

RECURSIVE FirstSentence(_, _)
FirstSentence(buckets, keys) ==
    IF keys = <<>> THEN Null
    ELSE IF buckets[Head(keys)] # <<>> THEN buckets[Head(keys)][1]
    ELSE FirstSentence(buckets, Tail(keys))

WithSnapshot(buckets) ==
    [buckets EXCEPT !.city_snapshot = FirstSentence(buckets, SnapshotOrder)]

NoBuckets == <<>>

NoContextCall ==
    [pc |-> "notCalled", state |-> "", via |-> "", focus |-> 1,
     responses |-> AllFailed, others |-> AllFailed, order |-> <<>>,
     entries |-> <<>>,
     result |-> NoBuckets]

ContextIdle == contextCall = NoContextCall

InitContext ==
    \E f \in 1..Len(STRATEGIC_QUERIES) :
        \E r \in Responses(STRATEGIC_QUERIES[f]) :
            \E d \in {AllFailed, AllAlike} :
                contextCall = [NoContextCall EXCEPT !.focus = f,
                                                    !.responses = r,
                                                    !.others = d]

\* fetchStrategicContext(city, state, zip) runs up to its await, or returns
\* the empty buckets when there is no state.
ContextCalled(state) ==
    /\ contextCall.pc = "notCalled"
    /\ contextCall' =
          IF state = ""
          THEN [contextCall EXCEPT !.pc = "done", !.state = state,
                                   !.via = "noState",
                                   !.result = emptyStrategicBuckets]
          ELSE [contextCall EXCEPT !.pc = "mapping", !.state = state]
    /\ UNCHANGED OtherThanContext

\* mapWithConcurrency returns the entries of all buckets, in the order of
\* STRATEGIC_QUERIES; the queries of the focus bucket have settled in the
\* given order.
ContextMapped(order) ==
    /\ contextCall.pc = "mapping"
    /\ contextCall' =
          [contextCall EXCEPT
              !.pc = "mapped",
              !.order = order,
              !.entries = [i \in 1..Len(STRATEGIC_QUERIES) |->
                              BucketEntry(i, Found([contextCall EXCEPT
                                                       !.order = order]))]]
    /\ UNCHANGED OtherThanContext

\* Lines 557-574: the buckets are built and returned.
ContextReturns ==
    /\ contextCall.pc = "mapped"
    /\ contextCall' =
          [contextCall EXCEPT
              !.pc = "done",
              !.via = "run",
              !.result = WithSnapshot(AssignEntries(emptyStrategicBuckets,
                                                    contextCall.entries))]
    /\ UNCHANGED OtherThanContext

\* GET's deadline passes first (lines 931-938): the context is the default.
ContextAbandoned ==
    /\ contextCall.pc \in {"mapping", "mapped"}
    /\ contextCall' = [contextCall EXCEPT !.pc = "done", !.via = "deadline",
                                          !.order = <<>>,
                                          !.result = emptyStrategicBuckets]
    /\ UNCHANGED OtherThanContext

NextContext ==
    \/ \E state \in {"", "AZ"} : ContextCalled(state)
    \/ \E order \in SettleOrders : ContextMapped(order)
    \/ ContextReturns
    \/ ContextAbandoned

\* ------------------------------------------------------------------------
\* fetchLocalPlaces
\* ------------------------------------------------------------------------
\* Lines 608-619: the category queries and their labels.
PlaceQueries ==
    <<<<"park", "Park">>, <<"trail", "Trail">>, <<"lake", "Lake">>,
      <<"stadium", "Stadium">>, <<"recreation center", "Rec Center">>,
      <<"community center", "Community Hub">>, <<"museum", "Museum">>,
      <<"farmers market", "Market">>,
      <<"shopping center", "Shopping Destination">>,
      <<"brewery", "Brewery">>>>

\* The concurrency limit of line 627.
PlaceConcurrency == 3

\* name.split(",")[0]
RECURSIVE FirstSegment(_)
FirstSegment(s) ==
    IF s = <<>> THEN <<>>
    ELSE IF s[1].c = "," THEN <<>>
    ELSE <<s[1]>> \o FirstSegment(Tail(s))

\* An item of a response: display_name is "a,b", "A" or "b", or it is not
\* a string.
DisplayNames ==
    {<<Run("a", 1), Run(",", 1), Run("b", 1)>>, <<Run("A", 1)>>, <<Run("b", 1)>>}

PlaceItems ==
    [named : {TRUE}, display_name : DisplayNames]
    \cup [named : {FALSE}, display_name : {EmptyString}]

\* What a category query meets: fetchWithTimeout rejects (a transport
\* error), is aborted after 8000 ms, the status is not a success, the body
\* is no JSON array (response.json() rejects or the loop over data throws),
\* or the body is an array of items.
PlaceFailures == {"rejects", "aborts", "notOk", "notJson"}

\* limit = 5 (line 603), and the limits a caller passes.
DefaultPlaceLimit == 5
PlaceLimits == {1, DefaultPlaceLimit}

\* A body of one record more than the default limit, all of different names.
LongResponse ==
    [kind |-> "array",
     data |-> [i \in 1..(DefaultPlaceLimit + 1) |->
                 [named |-> TRUE, display_name |-> <<Run("c", i)>>]]]

PlaceResponses ==
    [kind : PlaceFailures, data : {<<>>}]
    \cup [kind : {"array"},
          data : UNION {[1..k -> PlaceItems] : k \in 0..MaxPlaceItems}]
    \cup {LongResponse}

FailedResponse == [kind |-> "rejects", data |-> <<>>]

SameResponse ==
    [kind |-> "array",
     data |-> <<[named |-> TRUE, display_name |-> <<Run("A", 1)>>]>>]

\* Lines 643-663: the places of one response.
RECURSIVE PlacesOfItems(_, _)
PlacesOfItems(data, label) ==
    IF data = <<>> THEN <<>>
    ELSE (IF Head(data).named /\ Truthy(Head(data).display_name)
          THEN <<[name |-> FirstSegment(Head(data).display_name),
                  category |-> label]>>
          ELSE <<>>)
         \o PlacesOfItems(Tail(data), label)

\* A mapper without the catch block: the error leaves the mapper.
PlaceQueryRethrown(error) == [state |-> "rejected", value |-> <<>>]

\* The catch block of lines 664-667: the error is logged and [] returned.
PlaceQueryCaught(error) == Returned(<<>>)

\* Lines 628-668: the mapper, as the settlement of its promise.
PlaceMapper(response, label) ==
    CASE response.kind \in {"rejects", "aborts", "notJson"} ->
            PlaceQueryCaught(response.kind)
      [] response.kind = "notOk" -> Returned(<<>>)
      [] response.kind = "array" -> Returned(PlacesOfItems(response.data, label))

\* The places the mapper brings for a response.
PlacesOf(response, label) == PlaceMapper(response, label).value

\* The responses of one call: the query of one category (focus) meets any
\* response, the others all fail or all return the place "A".
PlaceFound(call) ==
    [i \in 1..Len(PlaceQueries) |->
        IF i = call.focus THEN call.response ELSE call.others]

\* Exact comparison of the names.
ExactPlaceKey(name) == name

\* place.name.toLowerCase()  (line 673)
PlaceKey(name) == toLowerCase(name)

\* Lines 671-678: the merge, from the state the loops are in.
RECURSIVE MergePlaceList(_, _, _)
MergePlaceList(placeList, merged, seen) ==
    IF placeList = <<>> THEN [results |-> merged, seen |-> seen]
    ELSE LET place == Head(placeList)
             normalized == PlaceKey(place.name)
         IN  IF normalized \in seen
             THEN MergePlaceList(Tail(placeList), merged, seen)
             ELSE MergePlaceList(Tail(placeList), Append(merged, place),
                                 seen \cup {normalized})

RECURSIVE MergePlaces(_, _, _)
MergePlaces(queryResults, merged, seen) ==
    IF queryResults = <<>> THEN merged
    ELSE LET m == MergePlaceList(Head(queryResults), merged, seen)
         IN  MergePlaces(Tail(queryResults), m.results, m.seen)

\* An element of `new Array(N)` that is not assigned yet, in the shape of a
\* place list.
NoPlaceList == <<[name |-> EmptyString, category |-> "undefined"]>>

NoPlacesCall ==
    [pc |-> "notCalled", limit |-> DefaultPlaceLimit, focus |-> 1,
     response |-> FailedResponse,
     others |-> FailedResponse, cursor |-> 0, inFlight |-> {},
     results |-> <<>>, overtaken |-> FALSE, result |-> <<>>]

PlacesIdle == placesCall = NoPlacesCall

InitPlaces ==
    \E f \in 1..Len(PlaceQueries) :
        \E r \in PlaceResponses :
            \E d \in {FailedResponse, SameResponse} :
                placesCall = [NoPlacesCall EXCEPT !.focus = f,
                                                  !.response = r,
                                                  !.others = d]

\* fetchLocalPlaces(latitude, longitude, limit) runs up to its await:
\* without coordinates it returns [], with them the first 3 queries are
\* started; the limit goes into the query string of each (line 634).
PlacesCalled(coords, placeLimit) ==
    /\ placesCall.pc = "notCalled"
    /\ placesCall' =
          IF ~coords
          THEN [placesCall EXCEPT !.pc = "done", !.limit = placeLimit,
                                  !.result = <<>>]
          ELSE [placesCall EXCEPT
                   !.pc = "mapping",
                   !.limit = placeLimit,
                   !.cursor = Min(PlaceConcurrency, Len(PlaceQueries)),
                   !.inFlight = 1..Min(PlaceConcurrency, Len(PlaceQueries)),
                   !.results = [i \in 1..Len(PlaceQueries) |-> NoPlaceList]]
    /\ UNCHANGED OtherThanPlaces

\* The mapper of query i settles. Fulfilled: its worker stores the places
\* and takes the next query, if there is one. Rejected: the worker's await
\* throws, Promise.all rejects and with it fetchLocalPlaces.
PlaceQueryCompletes(i) ==
    /\ placesCall.pc = "mapping"
    /\ i \in placesCall.inFlight
    /\ LET next == placesCall.cursor + 1
           more == next <= Len(PlaceQueries)
           settled == PlaceMapper(PlaceFound(placesCall)[i], PlaceQueries[i][2])
       IN  placesCall' =
              IF settled.state = "rejected"
              THEN [placesCall EXCEPT !.pc = "failed",
                                      !.inFlight = @ \ {i}]
              ELSE [placesCall EXCEPT
                      !.results = StoreResult(@, i, settled.value),
                      !.cursor = IF more THEN next ELSE @,
                      !.inFlight = (@ \ {i}) \cup (IF more THEN {next} ELSE {}),
                      !.overtaken = @ \/ \E j \in placesCall.inFlight : j < i]
    /\ UNCHANGED OtherThanPlaces

\* All workers are through: the lists are merged and returned.
PlacesReturn ==
    /\ placesCall.pc = "mapping"
    /\ placesCall.inFlight = {}
    /\ placesCall' =
          [placesCall EXCEPT
              !.pc = "done",
              !.result = MergePlaces(placesCall.results, <<>>, {})]
    /\ UNCHANGED OtherThanPlaces

NextPlaces ==
    \/ \E coords \in BOOLEAN : \E placeLimit \in PlaceLimits :
          PlacesCalled(coords, placeLimit)
    \/ \E i \in 1..Len(PlaceQueries) : PlaceQueryCompletes(i)
    \/ PlacesReturn

\* ------------------------------------------------------------------------
\* callGrok: the parser of the model's text (lines 852-884). A line is a
\* sequence of tokens: the separators "|" and ":", the space " ", and words
\* without separators or spaces; the string is their concatenation.
\* ------------------------------------------------------------------------
\* token.toLowerCase()
LowerToken(t) ==
    CASE t = "ANCHOR" -> "anchor"
      [] t = "W" -> "w"
      [] OTHER -> t

\* s.toLowerCase()
LowerTokens(s) == [i \in 1..Len(s) |-> LowerToken(s[i])]

\* s.trim()
RECURSIVE TrimTokens(_)
TrimTokens(s) ==
    IF s = <<>> THEN s
    ELSE IF s[1] = " " THEN TrimTokens(Tail(s))
    ELSE IF s[Len(s)] = " " THEN TrimTokens(SubSeq(s, 1, Len(s) - 1))
    ELSE s

\* s.indexOf(token), 1-based; 0 when it is absent (-1 in the source)
RECURSIVE IndexOfToken(_, _)
IndexOfToken(s, token) ==
    IF s = <<>> THEN 0
    ELSE IF s[1] = token THEN 1
    ELSE LET rest == IndexOfToken(Tail(s), token)
         IN  IF rest = 0 THEN 0 ELSE rest + 1

\* s.split(separator)
RECURSIVE SplitTokens(_, _)
SplitTokens(s, separator) ==
    LET at == IndexOfToken(s, separator)
    IN  IF at = 0 THEN <<s>>
        ELSE <<SubSeq(s, 1, at - 1)>>
             \o SplitTokens(SubSeq(s, at + 1, Len(s)), separator)

\* parts.join(separator)
RECURSIVE JoinTokens(_, _)
JoinTokens(parts, separator) ==
    IF parts = <<>> THEN <<>>
    ELSE IF Len(parts) = 1 THEN parts[1]
    ELSE parts[1] \o <<separator>> \o JoinTokens(Tail(parts), separator)

\* line.startsWith("ANCHOR|")
StartsWithAnchor(line) == Len(line) >= 2 /\ line[1] = "ANCHOR" /\ line[2] = "|"

\* The fields the model puts between the pipes of an ANCHOR line.
AnchorFields == {<<"W">>, <<" ", "w", ":", "w">>}

AnchorLines ==
    {JoinTokens(<<<<"ANCHOR">>>> \o fields, "|") :
        fields \in UNION {[1..k -> AnchorFields] : k \in 1..4}}

\* The other lines of a reply, as split(/\r?\n/) leaves them.
OtherLines ==
    {<<>>, <<" ">>,
     <<"W">>, <<"W", "|", "w">>, <<"ANCHOR">>,
     <<"ANCHOR", "|", "|", "|">>,
     <<"W", ":", "w">>, <<" ", "W", " ", ":", " ", "w", " ">>,
     <<"w", ":", "W", ":", "w">>, <<"w", ":", "W">>,
     <<":", "w">>, <<"W", ":">>, <<"W", ":", " ">>,
     <<"constructor", ":", "w">>}

ReplyLines == AnchorLines \cup OtherLines

Replies == UNION {[1..k -> ReplyLines] : k \in 0..MaxLines}

\* Lines 852-855: .map((line) => line.trim()).filter(Boolean)
RECURSIVE TrimmedLines(_)
TrimmedLines(raw) ==
    IF raw = <<>> THEN <<>>
    ELSE (IF TrimTokens(Head(raw)) # <<>> THEN <<TrimTokens(Head(raw))>>
          ELSE <<>>)
         \o TrimmedLines(Tail(raw))

\* The properties a plain object inherits: knowledge[bucket] is truthy for
\* them although no line has set it, and it is no array.
InheritedKeys == {<<"constructor">>, <<"__proto__">>}

MsgNotAFunction == <<"knowledge[bucket].push is not a function">>

Parsed(knowledge, anchors) ==
    [state |-> "fulfilled", error |-> <<>>, knowledge |-> knowledge,
     anchors |-> anchors]

\* A throw; knowledge and anchors are the locals as the throw leaves them.
Thrown(message, knowledge, anchors) ==
    [state |-> "rejected", error |-> message, knowledge |-> knowledge,
     anchors |-> anchors]

\* An anchor whose summary is the fourth part alone.
AnchorOfFourParts(line) ==
    LET parts == [i \in 1..Len(SplitTokens(line, "|")) |->
                     TrimTokens(SplitTokens(line, "|")[i])]
    IN  IF Len(parts) >= 4
        THEN <<[category |-> parts[2], name |-> parts[3], summary |-> parts[4]]>>
        ELSE <<>>

\* Lines 859-866: the anchor of an ANCHOR line, if it has 4 parts or more.
AnchorOf(line) ==
    LET parts == [i \in 1..Len(SplitTokens(line, "|")) |->
                     TrimTokens(SplitTokens(line, "|")[i])]
    IN  IF Len(parts) >= 4
        THEN <<[category |-> parts[2],
                name |-> parts[3],
                summary |-> JoinTokens(SubSeq(parts, 4, Len(parts)), " ")]>>
        ELSE <<>>

\* An emptiness test that looks at the knowledge alone.
NoKnowledge(knowledge, anchors) == DOMAIN knowledge = {}

\* Line 880
EmptySynthesis(knowledge, anchors) == DOMAIN knowledge = {} /\ anchors = <<>>

\* Lines 857-884: the loop over the lines, from the state it is in, and the
\* test after it.
RECURSIVE ParseLines(_, _, _)
ParseLines(lines, knowledge, anchors) ==
    IF lines = <<>>
    THEN IF EmptySynthesis(knowledge, anchors) THEN Thrown(MsgGrokEmpty, knowledge, anchors)
         ELSE Parsed(knowledge, anchors)
    ELSE LET line == Head(lines)
             separatorIndex == IndexOfToken(line, ":")
             bucket == LowerTokens(TrimTokens(SubSeq(line, 1, separatorIndex - 1)))
             said == TrimTokens(SubSeq(line, separatorIndex + 1, Len(line)))
         IN  IF StartsWithAnchor(line)
             THEN ParseLines(Tail(lines), knowledge, anchors \o AnchorOf(line))
             ELSE IF separatorIndex = 0
             THEN ParseLines(Tail(lines), knowledge, anchors)
             ELSE IF bucket = <<>> \/ said = <<>>
             THEN ParseLines(Tail(lines), knowledge, anchors)
             ELSE IF bucket \in DOMAIN knowledge
             THEN ParseLines(Tail(lines),
                             [knowledge EXCEPT ![bucket] = Append(@, said)],
                             anchors)
             ELSE IF bucket \in InheritedKeys
             THEN Thrown(MsgNotAFunction, knowledge, anchors)
             ELSE ParseLines(Tail(lines),
                             (bucket :> <<said>>) @@ knowledge,
                             anchors)

NoGrokCall ==
    [pc |-> "notCalled", lines |-> <<>>, result |-> Parsed(<<>>, <<>>)]

ParseIdle == grokCall = NoGrokCall

InitParse ==
    \E reply \in Replies : grokCall = [NoGrokCall EXCEPT !.lines = reply]

\* callGrok runs from the split of the content to its return or throw.
ParseReply ==
    /\ grokCall.pc = "notCalled"
    /\ grokCall' = [grokCall EXCEPT
                       !.pc = "done",
                       !.result = ParseLines(TrimmedLines(grokCall.lines),
                                             <<>>, <<>>)]
    /\ UNCHANGED OtherThanParse

NextParse == ParseReply

\* ------------------------------------------------------------------------
\* enrichLocalPlaces (lines 702-725): one task per place; city and state
\* are modelled by whether they are non-empty, a place by its position.
\* ------------------------------------------------------------------------
\* A test that lets every place have its highlight queries.
EnrichableAtAnyIndex(index, city, state) == city /\ state

\* Line 708: city && state && index < 3, with the 0-based index of the task.
Enrichable(index, city, state) == city /\ state /\ index < 3

\* Lines 709-712: the two highlight queries of a place, in their order.
HighlightQueries == 1..2

\* A task: the query it awaits (0 when it has returned), and its summary.
ResolvedTask(summary) == [awaits |-> 0, summary |-> summary]

NoEnrichCall ==
    [pc |-> "notCalled", places |-> 0, city |-> FALSE, state |-> FALSE,
     tasks |-> <<>>, issued |-> {}, result |-> <<>>]

EnrichIdle == enrichCall = NoEnrichCall

InitEnrich == enrichCall = NoEnrichCall

\* enrichLocalPlaces(places, city, state) up to its return of Promise.all:
\* places.map runs every task to its first await or to its end.
EnrichCalled(n, city, state) ==
    /\ enrichCall.pc = "notCalled"
    /\ enrichCall' =
          [enrichCall EXCEPT
              !.pc = "waiting",
              !.places = n,
              !.city = city,
              !.state = state,
              !.tasks = [i \in 1..n |->
                            IF Enrichable(i - 1, city, state)
                            THEN [awaits |-> 1, summary |-> "generic"]
                            ELSE ResolvedTask("generic")],
              !.issued = {<<i, 1>> : i \in {j \in 1..n :
                                               Enrichable(j - 1, city, state)}}]
    /\ UNCHANGED OtherThanEnrich

\* The query the task of place i awaits returns (lines 714-718): with a
\* sentence the summary is the highlight and the loop ends; with none the
\* next query is issued, or the loop is over.
HighlightReturns(i, found) ==
    /\ enrichCall.pc = "waiting"
    /\ i \in 1..enrichCall.places
    /\ enrichCall.tasks[i].awaits # 0
    /\ LET query == enrichCall.tasks[i].awaits
       IN  enrichCall' =
             IF found
             THEN [enrichCall EXCEPT !.tasks[i] = ResolvedTask("highlight")]
             ELSE IF query + 1 \in HighlightQueries
             THEN [enrichCall EXCEPT !.tasks[i].awaits = query + 1,
                                     !.issued = @ \cup {<<i, query + 1>>}]
             ELSE [enrichCall EXCEPT !.tasks[i] = ResolvedTask("generic")]
    /\ UNCHANGED OtherThanEnrich

\* Promise.all(tasks) resolves (line 724): every task has returned.
EnrichReturns ==
    /\ enrichCall.pc = "waiting"
    /\ \A i \in 1..enrichCall.places : enrichCall.tasks[i].awaits = 0
    /\ enrichCall' =
          [enrichCall EXCEPT
              !.pc = "done",
              !.result = [i \in 1..enrichCall.places |->
                             enrichCall.tasks[i].summary]]
    /\ UNCHANGED OtherThanEnrich

NextEnrich ==
    \/ \E n \in 0..MaxEnrichPlaces : \E city, state \in BOOLEAN :
          EnrichCalled(n, city, state)
    \/ \E i \in 1..MaxEnrichPlaces : \E found \in BOOLEAN : HighlightReturns(i, found)
    \/ EnrichReturns

\* ------------------------------------------------------------------------
\* Specifications: one component runs, the others stay as constructed
\* ------------------------------------------------------------------------
LookupsIdle ==
    /\ SentenceIdle /\ SnippetsIdle /\ ContextIdle /\ PlacesIdle /\ ParseIdle
    /\ EnrichIdle

InitBranchOnly == InitBranch /\ GetIdle /\ LookupsIdle

SpecBranch == InitBranchOnly /\ [][NextBranch]_vars

InitMapOnly == InitMap /\ TimeoutIdle /\ GetIdle /\ LookupsIdle

SpecMap == InitMapOnly /\ [][NextMap]_vars

InitTimeoutOnly == InitTimeout /\ MapIdle /\ GetIdle /\ LookupsIdle

SpecTimeout == InitTimeoutOnly /\ [][NextTimeout]_vars

InitGetOnly == InitGet /\ MapIdle /\ TimeoutIdle /\ LookupsIdle

Spec == InitGetOnly /\ [][Next]_vars

\* One request alone, with the timers that the code sets bound to fire: the
\* abort timers of fetchWithTimeout while a fetch waits for its headers and
\* the deadline timers of withTimeout. Nothing obliges an upstream to answer.
NextTimers == RequestStep(1) \/ Tick

TimersFire(r) ==
    /\ WF_vars(GeoAborts(r))
    /\ WF_vars(GeoDeadline(r))
    /\ WF_vars(ContextDeadline(r))
    /\ WF_vars(PlacesDeadline(r))
    /\ WF_vars(\E n \in PlaceLists : \E summaries \in EnhancedPlaces(n) :
                  EnrichAborts(r, summaries))
    /\ WF_vars(GrokAborts(r))

SpecTimers == InitGetOnly /\ [][NextTimers]_vars /\ TimersFire(1)

InitSentenceOnly ==
    /\ InitSentence
    /\ MapIdle /\ TimeoutIdle /\ GetIdle
    /\ SnippetsIdle /\ ContextIdle /\ PlacesIdle /\ ParseIdle /\ EnrichIdle

SpecSentence == InitSentenceOnly /\ [][NextSentence]_vars

InitSnippetsOnly ==
    /\ InitSnippets
    /\ MapIdle /\ TimeoutIdle /\ GetIdle
    /\ SentenceIdle /\ ContextIdle /\ PlacesIdle /\ ParseIdle /\ EnrichIdle

SpecSnippets == InitSnippetsOnly /\ [][NextSnippets]_vars

InitContextOnly ==
    /\ InitContext
    /\ MapIdle /\ TimeoutIdle /\ GetIdle
    /\ SentenceIdle /\ SnippetsIdle /\ PlacesIdle /\ ParseIdle /\ EnrichIdle

SpecContext == InitContextOnly /\ [][NextContext]_vars

InitPlacesOnly ==
    /\ InitPlaces
    /\ MapIdle /\ TimeoutIdle /\ GetIdle
    /\ SentenceIdle /\ SnippetsIdle /\ ContextIdle /\ ParseIdle /\ EnrichIdle

SpecPlaces == InitPlacesOnly /\ [][NextPlaces]_vars

InitParseOnly ==
    /\ InitParse
    /\ MapIdle /\ TimeoutIdle /\ GetIdle
    /\ SentenceIdle /\ SnippetsIdle /\ ContextIdle /\ PlacesIdle /\ EnrichIdle

SpecParse == InitParseOnly /\ [][NextParse]_vars

InitEnrichOnly ==
    /\ InitEnrich
    /\ MapIdle /\ TimeoutIdle /\ GetIdle
    /\ SentenceIdle /\ SnippetsIdle /\ ContextIdle /\ PlacesIdle /\ ParseIdle

SpecEnrich == InitEnrichOnly /\ [][NextEnrich]_vars

\* ------------------------------------------------------------------------
\* Properties of withTimeout
\* ------------------------------------------------------------------------
WrapperOutcome ==
    /\ wrapper.state \in {"fulfilled", "rejected"} => firstEvent # "none"
    /\ firstEvent = "none" => wrapper.state \in {"notCalled", "pending"}
    /\ firstEvent = "timeout" =>
          wrapper = Rejected(<<"Error", errorMessage>>)
    /\ firstEvent = "success" =>
          IF reacted THEN wrapper = Fulfilled(promise.value)
          ELSE wrapper.state \in {"notCalled", "pending"}
    /\ firstEvent = "failure" =>
          IF reacted THEN wrapper = Rejected(promise.value)
          ELSE wrapper.state \in {"notCalled", "pending"}

WrapperSettlesOnce ==
    wrapper.state \in {"fulfilled", "rejected"} => wrapper' = wrapper

\* C4: the promise withTimeout returns takes the outcome of whichever of the
\* wrapped promise's success, its failure and the timer comes first (the
\* timer's being an error with the caller's message), and once settled it
\* never changes, whatever settles later.
C4_FirstSettlementWins == []WrapperOutcome /\ [][WrapperSettlesOnce]_vars

\* C4 witness: the timer fired first, the wrapped promise succeeded later and
\* its reaction ran, and the wrapper still carries the timeout error.
C4_Witness ==
    /\ firstEvent = "timeout"
    /\ promise.state = "fulfilled"
    /\ reacted
    /\ timer = "fired"
    /\ wrapper = Rejected(<<"Error", errorMessage>>)

\* ------------------------------------------------------------------------
\* Properties of mapWithConcurrency
\* ------------------------------------------------------------------------
\* The mapper invocations started and not settled: the upstream calls of
\* the queries in flight.
Outstanding == Cardinality({i \in DOMAIN mapper : mapper[i] = "pending"})

\* C1: when the call returns, the returned array has one element per input
\* item and its i-th element is the mapper's result for the i-th item,
\* whatever the limit and the order in which the mapper promises settled.
C1_OrderPreserved ==
    mapCall.state = "fulfilled" =>
        /\ DOMAIN mapCall.value = DOMAIN items
        /\ ArrayLength(mapCall.value) = ArrayLength(items)
        /\ \A i \in DOMAIN items :
              mapCall.value[i] = MapperResult(items[i], i)

\* C1 witness: a call over three items or more has returned although a
\* later item's mapper settled before an earlier one's.
C1_Witness ==
    /\ mapCall.state = "fulfilled"
    /\ ArrayLength(items) >= 3
    /\ limit >= 2
    /\ outOfOrder

\* C2: the number of mapper invocations started and not yet settled never
\* exceeds the limit.
C2_AtMostLimitOutstanding == Outstanding <= limit

\* C2 witness: more items than the limit, the limit reached again after a
\* worker has gone on to a further item.
C2_Witness ==
    /\ ArrayLength(items) > limit
    /\ limit >= 2
    /\ cursor > limit
    /\ Outstanding = limit

\* C3: a failed mapper invocation fails the call with a mapper's error: the
\* call never returns a result array once an invocation has rejected, a
\* failed worker has rejected Promise.all, and a rejected call carries the
\* error of an invocation that rejected.
C3_FailurePropagates ==
    /\ mapCall.state = "fulfilled" =>
          \A i \in DOMAIN mapper : mapper[i] # "rejected"
    /\ (\E w \in DOMAIN workers : workers[w].state = "failed") =>
          /\ joined.state = "rejected"
          /\ mapCall.state \in {"pending", "rejected"}
    /\ mapCall.state = "rejected" =>
          \E i \in DOMAIN mapper :
              mapper[i] = "rejected" /\ mapCall.value = MapperError(i)

\* C3 witness: the call has failed with the error of one invocation while
\* another invocation succeeded and a third one failed as well.
C3_Witness ==
    /\ mapCall.state = "rejected"
    /\ \E i, j, k \in DOMAIN mapper :
          /\ mapCall.value = MapperError(i)
          /\ mapper[j] = "fulfilled"
          /\ k # i /\ mapper[k] = "rejected"

\* C34: the workers started are never more than min(limit, N); for N = 0 no
\* worker is started, the call is never left pending (it returns in the very
\* step of the call), its value is the empty array and no mapper invocation
\* exists.
C34_WorkersWithinMin ==
    /\ Cardinality(DOMAIN workers) <= Min(limit, ArrayLength(items))
    /\ ArrayLength(items) = 0 =>
          /\ workers = <<>>
          /\ mapCall.state \in {"notCalled", "fulfilled"}
          /\ mapCall.state = "fulfilled" => mapCall.value = <<>>
          /\ \A i \in 0..(MaxItems - 1) :
                i \notin DOMAIN mapper \/ mapper[i] = "unstarted"

\* C34 witness: fewer items than the limit allows workers for; exactly one
\* worker per item was started and the call has returned.
C34_Witness ==
    /\ ArrayLength(items) >= 2
    /\ limit > ArrayLength(items)
    /\ Cardinality(DOMAIN workers) = ArrayLength(items)
    /\ mapCall.state = "fulfilled"

\* No worker of the call is at an await any more.
Quiescent ==
    /\ mapCall.state # "notCalled"
    /\ \A w \in DOMAIN workers : workers[w].state # "awaiting"

\* C36, in every state: two workers never hold the same index; a worker
\* whose invocation succeeded can go on whatever became of the call, and
\* with items left its next step is an invocation; once no worker is at an
\* await, every index was invoked and succeeded if no invocation failed, and
\* every index was invoked if any worker came to its end without failing.
C36_EveryIndexInvoked ==
    /\ \A w, v \in DOMAIN workers :
          w # v => workers[w].index # workers[v].index
    /\ \A w \in DOMAIN workers :
          ( /\ workers[w].state = "awaiting"
            /\ mapper[workers[w].index] = "fulfilled" )
          => /\ ENABLED WorkerResumes(w)
             /\ cursor < ArrayLength(items) =>
                   ENABLED (WorkerResumes(w) /\ mapper'[cursor] = "pending")
    /\ Quiescent =>
          /\ (\A i \in DOMAIN mapper : mapper[i] # "rejected")
                => \A i \in DOMAIN mapper : mapper[i] = "fulfilled"
          /\ (\E w \in DOMAIN workers : workers[w].state = "done")
                => \A i \in DOMAIN mapper : mapper[i] # "unstarted"

\* C36, in every step: an invocation begins only on an index never invoked
\* before and is held by exactly one worker, an invoked index never becomes
\* uninvoked again, and the step in which a worker fails changes no other
\* worker, no invocation and not the cursor.
C36_Step ==
    /\ \A i \in DOMAIN mapper \cap DOMAIN mapper' :
          /\ (mapper'[i] = "pending" /\ mapper[i] # "pending")
                => /\ mapper[i] = "unstarted"
                   /\ Cardinality({w \in DOMAIN workers' :
                                     /\ workers'[w].index = i
                                     /\ workers'[w].state = "awaiting"}) = 1
          /\ mapper[i] # "unstarted" => mapper'[i] # "unstarted"
    /\ \A w \in DOMAIN workers \cap DOMAIN workers' :
          (workers'[w].state = "failed" /\ workers[w].state # "failed")
          => /\ \A v \in DOMAIN workers : v # w => workers'[v] = workers[v]
             /\ mapper' = mapper
             /\ cursor' = cursor

C36_OncePerIndex == [](C36_EveryIndexInvoked) /\ [][C36_Step]_vars

\* C36 witness: one invocation failed and the call was rejected; after that
\* the other worker began further invocations, and in the end every item
\* of three or more was invoked while only the one worker failed.
C36_Witness ==
    /\ startedLate
    /\ mapCall.state = "rejected"
    /\ ArrayLength(items) >= 3
    /\ Quiescent
    /\ Cardinality({w \in DOMAIN workers : workers[w].state = "failed"}) = 1
    /\ \A i \in DOMAIN mapper : mapper[i] # "unstarted"

\* ------------------------------------------------------------------------
\* Properties of a fan-out branch under its deadline
\* ------------------------------------------------------------------------
\* C5: once the branch's outer deadline has fired, none of the branch's
\* upstream calls is in flight any more and no query waits to be started:
\* every query's mapper has settled or the runner has stopped for good.
C5_DeadlineAbandonsWork ==
    timer = "fired" =>
        /\ Outstanding = 0
        /\ \A w \in DOMAIN workers : workers[w].state # "awaiting"

\* C5 witness: the deadline fired with a query in flight, and afterwards a
\* worker went on to start a query that had not been started before.
C5_Witness ==
    /\ timer = "fired"
    /\ wrapper = Rejected(<<"Error", errorMessage>>)
    /\ cursor > WorkerCount(limit, ArrayLength(items))
    /\ Outstanding > 0
    /\ clock = timeoutMs

\* ------------------------------------------------------------------------
\* Properties of GET and its cache
\* ------------------------------------------------------------------------
\* C6: a request whose ZIP is absent or is not exactly five digits is
\* answered 400 "ZIP code must be 5 digits." in the callback that received
\* it, having made no upstream call and no cache read or write.
C6_Rejected(r) ==
    /\ req[r].pc = "done"
    /\ req[r].response = ErrorResponse(400, <<"ZIP code must be 5 digits.">>)
    /\ req[r].trace = {}

C6_Step ==
    \A r \in Requests : \A zip \in InvalidZips :
        GetRequest(r, zip) => C6_Rejected(r)' /\ cache' = cache

C6_InvalidZipRejected ==
    /\ [](\A r \in Requests :
             req[r].pc # "idle" /\ req[r].zip \in InvalidZips => C6_Rejected(r))
    /\ [][C6_Step]_vars

\* C6 witness: with ZIP 85260 in the cache, a request for "8526a" has been
\* answered 400 and the entry is still there.
C6_Witness ==
    /\ HasEntry(cache[Str(<<"8", "5", "2", "6", "0">>)])
    /\ \E r \in Requests :
          /\ req[r].pc = "done"
          /\ req[r].zip = Str(<<"8", "5", "2", "6", "a">>)
          /\ req[r].response.status = 400
          /\ req[r].trace = {}

\* Request s ran the whole pipeline for the ZIP, stored its payload and
\* returned it, and no other request has stored an entry for the ZIP.
CompletedPipeline(s, zip) ==
    /\ req[s].pc = "done"
    /\ req[s].zip = zip
    /\ req[s].response.status = 200
    /\ "cache.set" \in req[s].trace
    /\ \A u \in Requests \ {s} :
          ~(req[u].zip = zip /\ "cache.set" \in req[u].trace)

\* C7: a request for a ZIP that arrives less than the TTL after the cache
\* check of a request which completed the pipeline for that ZIP is answered
\* at once with the same response, its only access being the cache read: no
\* upstream call, no cache write.
C7_Step ==
    \A r, s \in Requests : \A zip \in ValidZips :
        ( /\ GetRequest(r, zip)
          /\ s # r
          /\ CompletedPipeline(s, zip)
          /\ now - req[s].now < CACHE_TTL_MS )
        => /\ req'[r].pc = "done"
           /\ req'[r].response = req[s].response
           /\ req'[r].trace = {"cache.get"}
           /\ cache' = cache

C8_Step ==
    \A r \in Requests : \A zip \in ValidZips :
        ( /\ GetRequest(r, zip)
          /\ HasEntry(cache[zip])
          /\ now - cache[zip].timestamp >= CACHE_TTL_MS )
        => /\ req'[r].pc = "geoHeaders"
           /\ req'[r].response = NoResponse
           /\ req'[r].now = now
           /\ req'[r].trace = {"cache.get", "geo"}
           /\ cache' = cache

C8_StaleEntryIsMiss == [][C8_Step]_vars

\* C8 witness: a request made exactly the TTL after the entry's timestamp
\* has run the pipeline again and replaced the entry.
C8_Witness ==
    \E r, s \in Requests :
        /\ s # r
        /\ req[s].pc = "done" /\ "cache.set" \in req[s].trace
        /\ req[r].pc = "done" /\ "cache.set" \in req[r].trace
        /\ req[r].zip = req[s].zip
        /\ req[r].now = req[s].now + CACHE_TTL_MS
        /\ cache[req[r].zip].timestamp = req[r].now
        /\ {"geo", "grok"} \subseteq req[r].trace

\* C9: the cache changes only in the step in which a request's model reply
\* is parsed into a synthesis, and then only the entry of that request's
\* ZIP, which becomes the request's time of cache check and the payload it
\* returns; a request ending in any status other than 200 leaves the whole
\* cache as it was.
C9_Step ==
    /\ cache' # cache =>
          \E r \in Requests :
              /\ req[r].pc = "grokBody"
              /\ {"geo", "grok"} \subseteq req[r].trace
              /\ req'[r].pc = "done"
              /\ req'[r].response.status = 200
              /\ cache' = [cache EXCEPT ![req[r].zip] =
                              [timestamp |-> req[r].now,
                               payload |-> req'[r].response.payload]]
    /\ \A r \in Requests :
          ( /\ req[r].pc # "done"
            /\ req'[r].pc = "done"
            /\ req'[r].response.status # 200 )
          => cache' = cache

C9_OnlySuccessWrites == [][C9_Step]_vars

\* C9 witness: one ZIP has an entry, the other has none; requests for the
\* ZIP with the entry have ended in a synthesis failure after the entry was
\* stored, and the entry is the storing request's.
C9_Witness ==
    \E r, s \in Requests :
        /\ s # r
        /\ CompletedPipeline(s, req[s].zip)
        /\ cache[req[s].zip] = [timestamp |-> req[s].now,
                                payload |-> req[s].response.payload]
        /\ \E z \in ValidZips : ~HasEntry(cache[z])
        /\ req[r].pc = "done"
        /\ req[r].zip = req[s].zip
        /\ req[r].now >= req[s].now + CACHE_TTL_MS
        /\ req[r].response = ErrorResponse(502, <<"Grok returned an empty synthesis payload.">>)

\* C10: when the geocoding upstream answers 404, the request ends in that
\* callback with status 404 and the detail "ZIP <zip> not found." of its own
\* ZIP, having made the cache read and the geo call only.
C10_NotFound(r) ==
    /\ req[r].pc = "done"
    /\ req[r].response = ErrorResponse(404, <<"ZIP ", req[r].zip, " not found.">>)
    /\ req[r].trace = {"cache.get", "geo"}

C10_Step ==
    \A r \in Requests :
        GeoResponds(r, "404") => C10_NotFound(r)' /\ cache' = cache

C10_UpstreamNotFound ==
    /\ [](\A r \in Requests : req[r].response.status = 404 => C10_NotFound(r))
    /\ [][C10_Step]_vars

\* C10 witness: requests for both ZIPs have ended 404, each naming its own.
C10_Witness ==
    \E r, s \in Requests :
        /\ req[r].zip # req[s].zip
        /\ req[r].response = ErrorResponse(404, <<"ZIP ", Str(<<"0", "0", "0", "0", "0">>), " not found.">>)
        /\ req[s].response.status = 404

\* A request ended by the catch block of GET: an error body, no payload.
SurfacedFailure(r) ==
    /\ req[r].pc = "done"
    /\ req[r].response.status \in {502, 503}
    /\ req[r].response.payload = NoPayload
    /\ req[r].response.detail # NoDetail

\* C11: a geocoding reply with a non-success status other than 404, an
\* unparsable body, or a success body without place records ends the request
\* with a surfaced failure, never with the not-found response.
C11_Step ==
    \A r \in Requests :
        /\ GeoResponds(r, "500") => SurfacedFailure(r)'
        /\ \A data \in {b \in GeoBodies : b.kind # "places"} :
              GeoBodyArrives(r, data) => SurfacedFailure(r)'

C11_GeoFailuresAreHard == [][C11_Step]_vars

\* callGrok has been entered: its fetch is pending, or a configuration
\* check of its own has thrown.
ReachedSynthesize(q) ==
    \/ q.pc = "grokHeaders"
    \/ /\ q.pc = "done"
       /\ q.response \in {FailureResponse(MsgNoApiKey), FailureResponse(MsgNoApiUrl),
                          FailureResponse(MsgBadApiUrl)}

\* After a branch of request r got value ctx or plc in this step: with the
\* other branch still out nothing else changed (it is still awaited, the
\* request has not ended); with both values in, the request is in the
\* enrichment or in callGrok, carrying both values.
BranchIsolated(r, ctx, plc) ==
    IF ctx = NoValue \/ plc = -1
    THEN req'[r] = [req[r] EXCEPT !.ctx = ctx, !.plc = plc]
    ELSE /\ req'[r].pc = "enrich" \/ ReachedSynthesize(req'[r])
         /\ req'[r].pc # "done" =>
               /\ req'[r].ctx = ctx
               /\ req'[r].plc = plc
               /\ req'[r].pc = "grokHeaders" => Len(req'[r].places) = plc

\* C12: when the deadline of the context branch or of the place branch
\* fires, the branch's value becomes its empty default, the other branch is
\* left as it is, and the request goes on to the enrichment and the
\* synthesis once both values are in; the values reach the payload.
C12_Step ==
    \A r \in Requests :
        /\ ContextDeadline(r) => BranchIsolated(r, EmptyBuckets, req[r].plc)
        /\ PlacesDeadline(r) => BranchIsolated(r, req[r].ctx, 0)
        /\ GrokBodyArrives(r, "synthesis") =>
              /\ req'[r].response.status = 200
              /\ req'[r].response.payload.strategic_context = req[r].ctx
              /\ req'[r].response.payload.local_places = req[r].places

C12_BranchFailureIsolated == [][C12_Step]_vars

\* C12 witness: for a geo result with state and coordinates, the context
\* branch has delivered empty buckets while the place branch delivered a
\* place, the place was enriched and the model call is out.
C12_Witness ==
    \E r \in Requests :
        /\ req[r].pc = "grokHeaders"
        /\ req[r].geo.state /\ req[r].geo.coords
        /\ req[r].ctx = EmptyBuckets
        /\ req[r].plc = 1
        /\ req[r].places = <<"highlight">>
        /\ {"snippet", "place", "enrich", "grok"} \subseteq req[r].trace

\* C13: a request that ended in the catch block of GET carries an error
\* body with the failure's message and no payload, and its status is 503
\* exactly when the failure is the missing model API credential, 502 for
\* every other failure.
C13_StatusByFailure ==
    \A r \in Requests :
        req[r].response.status \in {502, 503} =>
            /\ req[r].pc = "done"
            /\ req[r].response.payload = NoPayload
            /\ req[r].response.detail # NoDetail
            /\ req[r].response.status = 503 <=>
                  (env = "noApiKey" /\ req[r].response.detail = MsgNoApiKey)

\* ------------------------------------------------------------------------
\* Properties of queryDuckDuckGoSnippets and ensureSentence
\* ------------------------------------------------------------------------
FailedBodies == {[kind |-> k] @@ NoObject : k \in {"empty", "notJson", "null"}}

C14_Step ==
    /\ \A error \in FetchErrors :
          SnippetFetchRejects(error) => snippetCall'.result = Returned(<<>>)
    /\ SnippetResponds(FALSE) => snippetCall'.result = Returned(<<>>)
    /\ SnippetBodyRejects => snippetCall'.result = Returned(<<>>)
    /\ \A raw \in FailedBodies :
          SnippetBodyRead(raw) => snippetCall'.result = Returned(<<>>)
    /\ snippetCall'.result.state # "rejected"

\* C14: queryDuckDuckGoSnippets never fails. When the fetch rejects (a
\* transport error or the abort), the status is not a success, the body
\* cannot be read, is empty, is not JSON or is the JSON value null, the call
\* returns the empty list, and in no step does its promise become rejected.
C14_SnippetsNeverFail == [][C14_Step]_vars

C14_Witness ==
    /\ snippetCall.pc = "done"
    /\ snippetCall.data.kind = "null"
    /\ snippetCall.result = Returned(<<>>)

Truncated(s) ==
    /\ Len(s) >= 2
    /\ s[Len(s) - 1].c = Ellipsis
    /\ s[Len(s)] = Run(".", 1)

\* C15: every sentence ensureSentence returns (the empty string means "no
\* sentence" and is skipped by the snippet source) is at most 220 characters
\* long and ends with '.', '!' or '?', and when the normalized candidate is
\* longer than 220 characters the sentence ends with the ellipsis marker
\* followed by the terminal punctuation.
C15_SentenceWithinLimit ==
    (sentence.state = "returned" /\ Truthy(sentence.value)) =>
        /\ Length(sentence.value) <= 220
        /\ EndsWithTerminal(sentence.value)
        /\ Length(normalizeBlurb(text)) > 220 => Truncated(sentence.value)

C15_Witness ==
    /\ sentence.state = "returned"
    /\ Length(normalizeBlurb(text)) > 220
    /\ Truncated(sentence.value)
    /\ Length(sentence.value) <= 220

\* The sentences of the candidates of the parsed payload, in the order
\* heading, abstract text, abstract, answer, info-box entries, related
\* topics; an absent candidate gives the empty string.
CandidateSentences ==
    LET d == snippetCall.data
        c == <<d.Heading, d.AbstractText, d.Abstract, d.Answer>>
             \o InfoboxCandidates(d.Infobox) \o extractRelatedTopics(d)
    IN  [i \in 1..Len(c) |-> ensureSentence(c[i])]

\* The positions of the sentences that differ, case-insensitively, from
\* every sentence before them.
FirstOccurrences ==
    {i \in 1..Len(CandidateSentences) :
        /\ CandidateSentences[i] # EmptyString
        /\ \A j \in 1..(i - 1) :
              toLowerCase(CandidateSentences[j]) # toLowerCase(CandidateSentences[i])}

NthOccurrence(k) ==
    CHOOSE i \in FirstOccurrences :
        Cardinality({j \in FirstOccurrences : j < i}) = k - 1

C17_BucketWithinCap ==
    (contextCall.pc = "done" /\ contextCall.via \in {"noState", "run"}) =>
        \A i \in 1..Len(STRATEGIC_QUERIES) :
            /\ STRATEGIC_QUERIES[i].limit \in {2, 3}
            /\ Len(contextCall.result[STRATEGIC_QUERIES[i].key])
                  <= STRATEGIC_QUERIES[i].limit

\* The sentences the queries of the focus bucket returned.
FocusSentences ==
    UNION {{contextCall.responses[t].value[k] :
               k \in 1..Len(contextCall.responses[t].value)} :
           t \in 1..Len(contextCall.responses)}

FocusBucket == contextCall.result[STRATEGIC_QUERIES[contextCall.focus].key]

C17_Witness ==
    /\ contextCall.pc = "done"
    /\ contextCall.via = "run"
    /\ Len(FocusBucket) = STRATEGIC_QUERIES[contextCall.focus].limit
    /\ Cardinality(FocusSentences) > STRATEGIC_QUERIES[contextCall.focus].limit

\* C18: in every strategic context fetchStrategicContext returns, no bucket
\* holds two sentences that are equal when compared without regard to case,
\* whichever templates of the bucket they came from.
C18_NoDuplicateInBucket ==
    (contextCall.pc = "done" /\ contextCall.via \in {"noState", "run"}) =>
        \A i \in 1..Len(STRATEGIC_QUERIES) :
            LET bucket == contextCall.result[STRATEGIC_QUERIES[i].key]
            IN  \A j, k \in 1..Len(bucket) :
                    j # k => toLowerCase(bucket[j]) # toLowerCase(bucket[k])

\* A sentence two templates of a bucket both returned is kept once.
C18_Witness ==
    /\ contextCall.pc = "done"
    /\ contextCall.via = "run"
    /\ Len(FocusBucket) < STRATEGIC_QUERIES[contextCall.focus].limit
    /\ \E k \in 1..Len(FocusBucket) :
          /\ Includes(contextCall.responses[1].value, FocusBucket[k])
          /\ Includes(contextCall.responses[2].value, FocusBucket[k])
    /\ \A j, k \in 1..Len(FocusBucket) : j # k => FocusBucket[j] # FocusBucket[k]

BucketKeys ==
    {"state_identity", "state_trends", "seasonal_rhythms",
     "community_traditions", "iconic_destinations", "outdoor_showstoppers",
     "neighborhood_archetypes", "home_projects", "economic_momentum",
     "population_growth", "desirability_factors", "sports_heat",
     "food_and_drink", "civic_culture", "housing_signals", "life_stage_notes",
     "positive_news", "emotional_connectors"}

IsList(v) == DOMAIN v = 1..Len(v)

\* C19: every strategic context handed to GET (from a run, from the
\* short-circuit for an absent state, or the default GET takes when the
\* lookup misses its deadline) has all 18 bucket keys, each bound to a list.
C19_AllBucketKeysPresent ==
    contextCall.pc = "done" =>
        /\ Cardinality(BucketKeys) = 18
        /\ \A key \in BucketKeys :
              /\ key \in DOMAIN contextCall.result
              /\ IsList(contextCall.result[key])

\* A run in which every snippet call failed.
C19_Witness ==
    /\ contextCall.pc = "done"
    /\ contextCall.via = "run"
    /\ contextCall.responses = AllFailed
    /\ contextCall.others = AllFailed
    /\ contextCall.result = emptyStrategicBuckets

\* ------------------------------------------------------------------------
\* Properties of fetchLocalPlaces
\* ------------------------------------------------------------------------
\* The places of all responses: by position of the category in the fixed
\* list, then by position in the category's response.
RECURSIVE PlacesFrom(_)
PlacesFrom(i) ==
    IF i > Len(PlaceQueries) THEN <<>>
    ELSE PlacesOf(PlaceFound(placesCall)[i], PlaceQueries[i][2])
         \o PlacesFrom(i + 1)

AllPlaces == PlacesFrom(1)

\* The positions of the places whose name differs, case-insensitively, from
\* the name of every place before them.
FirstSeen ==
    {i \in 1..Len(AllPlaces) :
        \A j \in 1..(i - 1) :
            toLowerCase(AllPlaces[j].name) # toLowerCase(AllPlaces[i].name)}

NthSeen(k) ==
    CHOOSE i \in FirstSeen : Cardinality({j \in FirstSeen : j < i}) = k - 1

\* C20: in every list fetchLocalPlaces returns no two places have names
\* that are equal without regard to case, and the list is the places in
\* first-seen order (category position, then position in the category's
\* response), whatever the order in which the category queries completed.
C20_PlacesFirstSeenOrder ==
    placesCall.pc = "done" =>
        LET r == placesCall.result
        IN  /\ \A i, j \in 1..Len(r) :
                  i # j => toLowerCase(r[i].name) # toLowerCase(r[j].name)
            /\ placesCall.results # <<>> =>
                  /\ Len(r) = Cardinality(FirstSeen)
                  /\ \A k \in 1..Len(r) : r[k] = AllPlaces[NthSeen(k)]

C20_Witness ==
    /\ placesCall.pc = "done"
    /\ placesCall.overtaken
    /\ Len(placesCall.result) >= 2
    /\ \E i, j \in 1..Len(AllPlaces) :
          /\ i < j
          /\ AllPlaces[i].category # AllPlaces[j].category
          /\ AllPlaces[i].name # AllPlaces[j].name
          /\ toLowerCase(AllPlaces[i].name) = toLowerCase(AllPlaces[j].name)

PlaceNames(places) == {toLowerCase(places[k].name) : k \in 1..Len(places)}

C21_Step ==
    /\ \A i \in 1..Len(PlaceQueries) :
          (PlaceQueryCompletes(i) /\ PlaceFound(placesCall)[i].kind # "array") =>
              /\ placesCall'.pc = "mapping"
              /\ placesCall'.results[i] = <<>>
              /\ \A j \in placesCall.inFlight \ {i} : j \in placesCall'.inFlight
              /\ placesCall.cursor < Len(PlaceQueries) =>
                    (placesCall.cursor + 1) \in placesCall'.inFlight
    /\ placesCall'.pc # "failed"
    /\ (placesCall'.pc = "done" /\ placesCall'.results # <<>>) =>
          /\ placesCall'.cursor = Len(PlaceQueries)
          /\ \A i \in 1..Len(PlaceQueries) :
                LET found == PlaceFound(placesCall')[i]
                IN  IF found.kind = "array"
                    THEN PlaceNames(PlacesOfItems(found.data, PlaceQueries[i][2]))
                            \subseteq PlaceNames(placesCall'.result)
                    ELSE \A k \in 1..Len(placesCall'.result) :
                            placesCall'.result[k].category # PlaceQueries[i][2]

\* C21: a category query of fetchLocalPlaces that fails (fetch rejects, the
\* abort, a non-success status, a body that is no JSON array) leaves the
\* empty list for its category and nothing else: the runner goes on, the
\* queries in flight stay in flight and the next query is started; no step
\* makes fetchLocalPlaces fail; and the returned list, reached only after
\* all 10 queries were issued, has the names of every answered category and
\* no place of a failed one.
C21_PlaceFailureIsolated == [][C21_Step]_vars

C21_Witness ==
    /\ placesCall.pc = "done"
    /\ placesCall.response.kind = "notJson"
    /\ placesCall.others = SameResponse
    /\ Len(placesCall.result) = 1
    /\ placesCall.result[1].name = <<Run("A", 1)>>

\* ------------------------------------------------------------------------
\* callGrok's parser
\* ------------------------------------------------------------------------
\* The pipe-delimited fields of a line.
PipeFields(line) == SplitTokens(line, "|")

HasColon(line) == \E i \in 1..Len(line) : line[i] = ":"

\* A line without a colon that is no ANCHOR line, or an ANCHOR line with
\* fewer than 4 fields.
Malformed(line) ==
    IF StartsWithAnchor(line) THEN Len(PipeFields(line)) < 4
    ELSE ~HasColon(line)

\* The lines of the reply that are not blank, trimmed.
GivenLines == TrimmedLines(grokCall.lines)

\* C22: callGrok fails with the empty-synthesis error exactly when the
\* parsing has run to its end with no anchor and no knowledge key; and a
\* reply made only of lines without a colon and of ANCHOR lines with fewer
\* than 4 fields fails with that error.
C22_Step ==
    ParseReply =>
        LET result == grokCall'.result
        IN  /\ (result.state = "rejected" /\ result.error = MsgGrokEmpty)
               <=> /\ result.error # MsgNotAFunction
                   /\ DOMAIN result.knowledge = {}
                   /\ result.anchors = <<>>
            /\ (\A i \in 1..Len(GivenLines) : Malformed(GivenLines[i]))
               => result.state = "rejected" /\ result.error = MsgGrokEmpty

Field(line, k) == TrimTokens(PipeFields(line)[k])

\* The fields from the fourth on, joined by single spaces.
RECURSIVE RemainingFields(_, _)
RemainingFields(line, k) ==
    IF k > Len(PipeFields(line)) THEN <<>>
    ELSE IF k = Len(PipeFields(line)) THEN Field(line, k)
    ELSE Field(line, k) \o <<" ">> \o RemainingFields(line, k + 1)

\* One anchor for each ANCHOR line of 4 fields or more, in line order.
RECURSIVE ExpectedAnchors(_)
ExpectedAnchors(lines) ==
    IF lines = <<>> THEN <<>>
    ELSE (IF StartsWithAnchor(Head(lines)) /\ Len(PipeFields(Head(lines))) >= 4
          THEN <<[category |-> Field(Head(lines), 2),
                  name |-> Field(Head(lines), 3),
                  summary |-> RemainingFields(Head(lines), 4)]>>
          ELSE <<>>)
         \o ExpectedAnchors(Tail(lines))

WithoutAnchorLines(lines) == SelectSeq(lines, LAMBDA line : ~StartsWithAnchor(line))

\* C23: when the parsing has run to its end, the anchors are one per ANCHOR
\* line of at least 4 pipe-delimited fields, in line order, with category =
\* field 2, name = field 3 and summary = the remaining fields joined by
\* spaces; an ANCHOR line of fewer fields gives no anchor, and no ANCHOR line
\* gives a knowledge entry: the knowledge is that of the other lines alone.
C23_Step ==
    ParseReply =>
        LET result == grokCall'.result
        IN  result.error # MsgNotAFunction =>
               /\ result.anchors = ExpectedAnchors(GivenLines)
               /\ result.knowledge =
                     ParseLines(WithoutAnchorLines(GivenLines), <<>>, <<>>).knowledge

KeyOf(line) == LowerTokens(TrimTokens(SubSeq(line, 1, IndexOfToken(line, ":") - 1)))

SentenceOf(line) == TrimTokens(SubSeq(line, IndexOfToken(line, ":") + 1, Len(line)))

\* The colon lines of the reply that are no ANCHOR lines, in line order.
ColonLines == SelectSeq(GivenLines, LAMBDA line : ~StartsWithAnchor(line) /\ HasColon(line))

\* The sentences of the colon lines that have the given key, in line order.
RECURSIVE SentencesUnder(_, _)
SentencesUnder(key, lines) ==
    IF lines = <<>> THEN <<>>
    ELSE (IF KeyOf(Head(lines)) = key THEN <<SentenceOf(Head(lines))>> ELSE <<>>)
         \o SentencesUnder(key, Tail(lines))

\* C24: every line with a colon that is no ANCHOR line appends its trimmed
\* right side, in line order, under the lower-cased left side, whatever that
\* key is: a reply with such a line is parsed, and its knowledge holds, for
\* the key of every such line, the sentences of the lines with that key.
C24_EveryColonLineAppended ==
    (grokCall.pc = "done" /\ ColonLines # <<>>) =>
        /\ grokCall.result.state = "fulfilled"
        /\ DOMAIN grokCall.result.knowledge =
              {KeyOf(ColonLines[i]) : i \in 1..Len(ColonLines)}
        /\ \A key \in DOMAIN grokCall.result.knowledge :
              grokCall.result.knowledge[key] = SentencesUnder(key, ColonLines)

\* Two colon lines with the same key in different case have given one key
\* with both sentences in line order.
C24_Witness ==
    /\ grokCall.pc = "done"
    /\ Len(ColonLines) = 2
    /\ ColonLines[1] # ColonLines[2]
    /\ ColonLines[1][1] # ColonLines[2][1]
    /\ KeyOf(ColonLines[1]) = KeyOf(ColonLines[2])
    /\ grokCall.result.state = "fulfilled"
    /\ grokCall.result.knowledge[KeyOf(ColonLines[1])] =
          <<SentenceOf(ColonLines[1]), SentenceOf(ColonLines[2])>>

\* ------------------------------------------------------------------------
\* Termination of a request
\* ------------------------------------------------------------------------
\* The request has passed validation and has not returned yet.
InProgress(r) == req[r].pc \notin {"idle", "done"}

\* C25: a request that has passed validation eventually returns a response,
\* whatever the upstreams do, as long as the timers fire.
C25_EveryRequestResponds == InProgress(1) ~> req[1].pc = "done"

\* A request whose geo upstream sent its headers and never finished its
\* body has returned the failure of the geo deadline.
C25_Witness ==
    /\ req[1].pc = "done"
    /\ req[1].response.status = 502
    /\ req[1].response.detail = MsgGeoTimeout

\* ------------------------------------------------------------------------
\* The order of the steps of a request
\* ------------------------------------------------------------------------
\* The request makes the call or cache access in this step.
Starts(r, call) == call \notin req[r].trace /\ call \in req'[r].trace

AwaitsEnrichment(q) == q.pc \in {"enrich", "enrichBody"}

AwaitsModel(q) == q.pc \in {"grokHeaders", "grokErrorBody", "grokBody"}

\* C26: in every step of every request, a context or place call starts only
\* in the callback in which the geo body gave a geo result; while a fan-out
\* branch is pending neither the enrichment nor the model call has started;
\* the enrichment starts only with both branch values in; the model call
\* starts only with the enrichment over and every place summarised; and the
\* cache is written only in the callback that parsed a synthesis, which
\* returns the written payload with status 200.
C26_Step ==
    \A r \in Requests :
        LET q == req[r]
            after == req'[r]
        IN  /\ (Starts(r, "snippet") \/ Starts(r, "place")) =>
                  /\ q.pc = "geoBody"
                  /\ \E data \in GeoBodies :
                        data.kind = "places" /\ GeoBodyArrives(r, data)
            /\ after.pc = "fanout" =>
                  /\ after.ctx = NoValue \/ after.plc = -1
                  /\ after.trace \cap {"enrich", "grok", "cache.set"} = {}
            /\ Starts(r, "enrich") =>
                  /\ q.pc \in {"geoBody", "fanout"}
                  /\ after.ctx # NoValue /\ after.plc # -1
                  /\ "grok" \notin after.trace
            /\ AwaitsEnrichment(after) => "grok" \notin after.trace
            /\ (Starts(r, "grok") \/ (~AwaitsModel(q) /\ AwaitsModel(after))) =>
                  /\ AwaitsEnrichment(q) \/ "enrich" \notin after.trace
                  /\ after.ctx # NoValue /\ after.plc # -1
                  /\ Len(after.places) = after.plc
                  /\ "cache.set" \notin after.trace
            /\ Starts(r, "cache.set") =>
                  /\ q.pc = "grokBody" /\ "grok" \in q.trace
                  /\ after.pc = "done"
                  /\ after.response.status = 200
                  /\ after.response.payload.knowledge_brief \in Syntheses
                  /\ cache'[q.zip] = [timestamp |-> q.now,
                                      payload |-> after.response.payload]
            /\ (q.pc = "done" /\ q.response.status # 0) => after = q

C26_CacheWrittenBySynthesisOnly ==
    cache' # cache => \E r \in Requests : Starts(r, "cache.set")

C26_StepsInOrder == [][C26_Step /\ C26_CacheWrittenBySynthesisOnly]_vars

\* A request has gone through every step: its response holds a place with
\* a fetched highlight and is what the cache holds for its ZIP.
C26_Witness ==
    \E r \in Requests :
        /\ req[r].pc = "done"
        /\ req[r].trace = {"cache.get", "geo", "snippet", "place", "enrich",
                           "grok", "cache.set"}
        /\ req[r].response.status = 200
        /\ req[r].response.payload.local_places = <<"highlight">>
        /\ cache[req[r].zip].payload = req[r].response.payload

\* ------------------------------------------------------------------------
\* Concurrent requests for one ZIP
\* ------------------------------------------------------------------------
\* Request r missed the cache and ran the pipeline to its cache write.
RanPipeline(r) ==
    /\ req[r].pc = "done"
    /\ {"cache.get", "geo", "grok", "cache.set"} \subseteq req[r].trace
    /\ req[r].response.status = 200

\* C27: whenever a request writes the cache, the entry of its ZIP becomes
\* its own payload whole (its own context, places and geo result, with the
\* time of its own cache check), whatever the entry held before, and no
\* other entry changes; so every entry the cache holds is the complete
\* payload that one request returned.
C27_Step ==
    \A r \in Requests :
        Starts(r, "cache.set") =>
            LET q == req[r]
                entry == cache'[q.zip]
            IN  /\ entry.timestamp = q.now
                /\ entry.payload.strategic_context = q.ctx
                /\ entry.payload.local_places = q.places
                /\ entry.payload.city = q.geo.city
                /\ entry.payload.state = q.geo.state
                /\ entry.payload.knowledge_brief \in Syntheses
                /\ entry.payload = req'[r].response.payload
                /\ \A z \in ValidZips \ {q.zip} : cache'[z] = cache[z]

C27_EntryIsOnePayload ==
    \A z \in ValidZips :
        HasEntry(cache[z]) =>
            \E r \in Requests :
                /\ RanPipeline(r)
                /\ req[r].zip = z
                /\ cache[z] = [timestamp |-> req[r].now,
                               payload |-> req[r].response.payload]

C27_NoSingleFlight == [](C27_EntryIsOnePayload) /\ [][C27_Step]_vars

\* Two requests for one ZIP checked the cache at the same time, both missed
\* it, both ran the pipeline and wrote the entry; they returned different
\* payloads and the entry is the payload of one of them.
C27_Witness ==
    \E r, s \in Requests :
        /\ r # s
        /\ RanPipeline(r) /\ RanPipeline(s)
        /\ req[r].zip = req[s].zip
        /\ req[r].now = req[s].now
        /\ req[r].response.payload # req[s].response.payload
        /\ req[r].response.payload.local_places # req[s].response.payload.local_places
        /\ cache[req[r].zip].payload = req[s].response.payload

\* ------------------------------------------------------------------------
\* fetchLocalPlaces: the limit
\* ------------------------------------------------------------------------
\* The places of the result that carry the label of query i.
PlacesOfCategory(i) ==
    SelectSeq(placesCall.result, LAMBDA place : place.category = PlaceQueries[i][2])

\* C28: in every list fetchLocalPlaces returned, each category has at most
\* limit places.
C28_AtMostLimitPerCategory ==
    placesCall.pc = "done" =>
        \A i \in 1..Len(PlaceQueries) : Len(PlacesOfCategory(i)) <= placesCall.limit

\* A call with the default limit, one category of which got a record without
\* display name and a record with one: its single place is in the result.
C28_Witness ==
    /\ placesCall.pc = "done"
    /\ placesCall.limit = DefaultPlaceLimit
    /\ placesCall.response.kind = "array"
    /\ Len(placesCall.response.data) = 2
    /\ ~placesCall.response.data[1].named
    /\ placesCall.response.data[2].named
    /\ Len(PlacesOfCategory(placesCall.focus)) = 1

\* ------------------------------------------------------------------------
\* fetchStrategicContext: the content of a bucket and the city snapshot
\* ------------------------------------------------------------------------
\* The sentences the queries of a bucket returned, by template and then by
\* position in the template's result; a query that failed has none.
RECURSIVE Concatenation(_)
Concatenation(responses) ==
    IF responses = <<>> THEN <<>>
    ELSE (IF Head(responses).state = "fulfilled" THEN Head(responses).value
          ELSE <<>>)
         \o Concatenation(Tail(responses))

\* The first occurrence of every sentence of a list.
DistinctSentences(list) ==
    LET first == {i \in 1..Len(list) : \A j \in 1..(i - 1) : list[j] # list[i]}
        RECURSIVE From(_)
        From(i) ==
            IF i > Len(list) THEN <<>>
            ELSE (IF i \in first THEN <<list[i]>> ELSE <<>>) \o From(i + 1)
    IN  From(1)

FirstOf(list, cap) == SubSeq(list, 1, Min(cap, Len(list)))

\* What the queries of bucket i returned in this call.
ReturnedFor(i) ==
    IF i = contextCall.focus THEN contextCall.responses ELSE contextCall.others

\* C29: in every context a run of fetchStrategicContext returned, whatever
\* the order in which the queries of a bucket settled, the list of each
\* bucket is the first cap different sentences of its templates' results
\* taken by template and then by position.
C29_FirstCapInTemplateOrder ==
    (contextCall.pc = "done" /\ contextCall.via = "run") =>
        \A i \in 1..Len(STRATEGIC_QUERIES) :
            contextCall.result[STRATEGIC_QUERIES[i].key] =
                FirstOf(DistinctSentences(Concatenation(ReturnedFor(i))),
                        STRATEGIC_QUERIES[i].limit)

\* The third query of a bucket of cap 2 settled first and the first query
\* last; the first returned nothing, the second two sentences and the third
\* another one: the bucket holds the two of the second.
C29_Witness ==
    /\ contextCall.pc = "done"
    /\ contextCall.via = "run"
    /\ contextCall.order = <<3, 2, 1>>
    /\ STRATEGIC_QUERIES[contextCall.focus].limit = 2
    /\ contextCall.responses[1].value = <<>>
    /\ Len(contextCall.responses[2].value) = 2
    /\ Len(contextCall.responses[3].value) = 1
    /\ ~Includes(contextCall.responses[2].value, contextCall.responses[3].value[1])
    /\ FocusBucket = contextCall.responses[2].value

\* The buckets the city snapshot is taken from, in their order.
SnapshotBuckets ==
    <<"state_identity", "state_trends", "community_traditions",
      "iconic_destinations", "outdoor_showstoppers", "neighborhood_archetypes",
      "food_and_drink", "emotional_connectors", "positive_news">>

\* C30: in every context a run of fetchStrategicContext returned for a
\* state, city_snapshot is null exactly when the nine snapshot buckets are
\* all empty, and is otherwise the first sentence of the first of them, in
\* their order, that is not empty.
C30_CitySnapshot ==
    (contextCall.pc = "done" /\ contextCall.via = "run") =>
        LET buckets == contextCall.result
            filled == {k \in 1..Len(SnapshotBuckets) :
                          buckets[SnapshotBuckets[k]] # <<>>}
        IN  /\ Len(SnapshotBuckets) = 9
            /\ buckets.city_snapshot = Null <=> filled = {}
            /\ \A k \in filled :
                  (\A j \in filled : k <= j) =>
                      buckets.city_snapshot = buckets[SnapshotBuckets[k]][1]

\* Only the food_and_drink bucket, the seventh of the nine, got sentences:
\* the snapshot is its first one.
C30_Witness ==
    /\ contextCall.pc = "done"
    /\ contextCall.via = "run"
    /\ contextCall.others = AllFailed
    /\ STRATEGIC_QUERIES[contextCall.focus].key = "food_and_drink"
    /\ Len(FocusBucket) = 2
    /\ contextCall.result.city_snapshot = FocusBucket[1]

\* ------------------------------------------------------------------------
\* Properties of enrichLocalPlaces
\* ------------------------------------------------------------------------
\* C31: at every moment of a call, queries have been issued only for the
\* first 3 places and only with city and state both non-empty, at most 6 in
\* all; the fallback query of a place is issued only in the step in which
\* its first query returned no sentence; and in the returned list every
\* place from the fourth on, and every place when city or state is missing,
\* has the generic summary.
C31_QueriesWithinBounds ==
    /\ \A q \in enrichCall.issued :
          /\ q[1] \in 1..3
          /\ q[2] \in 1..2
          /\ enrichCall.city /\ enrichCall.state
          /\ q[2] = 2 => <<q[1], 1>> \in enrichCall.issued
    /\ Cardinality(enrichCall.issued) <= 6
    /\ enrichCall.pc = "done" =>
          \A i \in 1..enrichCall.places :
              (i > 3 \/ ~enrichCall.city \/ ~enrichCall.state) =>
                  enrichCall.result[i] = "generic"

C31_Step ==
    \A i \in 1..MaxEnrichPlaces :
        (<<i, 2>> \notin enrichCall.issued /\ <<i, 2>> \in enrichCall'.issued) =>
            /\ enrichCall.tasks[i].awaits = 1
            /\ HighlightReturns(i, FALSE)

C31_EnrichmentQueries == [](C31_QueriesWithinBounds) /\ [][C31_Step]_vars

\* A call with 4 places, city and state: all 6 queries were issued, the
\* second place got its highlight from the fallback query, the fourth has the
\* generic summary.
C31_Witness ==
    /\ enrichCall.pc = "done"
    /\ enrichCall.places = 4
    /\ Cardinality(enrichCall.issued) = 6
    /\ enrichCall.result[2] = "highlight"
    /\ enrichCall.result[4] = "generic"

\* ------------------------------------------------------------------------
\* Work that a deadline left behind
\* ------------------------------------------------------------------------
\* The deadline of the branch has fired and rejected the envelope's promise:
\* the catch of GET (lines 935-938, 943-946) substitutes the default.
DefaultSubstituted ==
    /\ timer = "fired"
    /\ wrapper = Rejected(<<"Error", errorMessage>>)

\* A query or the branch function itself completes in this step.
LateCompletion ==
    \/ \E i \in DOMAIN items : BranchMapperSettles(i)
    \/ \E w \in 1..MaxItems : BranchWorkerResumes(w)
    \/ BranchMapReturns
    \/ BranchReturns
    \/ ThenReaction

\* C32: once the deadline of a branch has fired and the default has been
\* substituted, no step changes what the envelope handed to GET: a query
\* that completes later, the runner's return, the branch function's return
\* and the envelope's own reaction to it all leave the rejection in place.
C32_Step ==
    DefaultSubstituted =>
        /\ wrapper' = wrapper
        /\ timer' = timer
        /\ LateCompletion => DefaultSubstituted'

CachedZips(c) == {z \in ValidZips : HasEntry(c[z])}

\* C33: in every step the ZIP keys of the cache stay or grow, and the entry
\* of a key changes only in the step in which a request for that ZIP writes
\* the payload of its own successful run; so an expired entry stays in the
\* map, also through the cache check that treats it as a miss.
C33_Step ==
    /\ CachedZips(cache) \subseteq CachedZips(cache')
    /\ \A z \in ValidZips :
          cache'[z] # cache[z] =>
              \E r \in Requests :
                  /\ Starts(r, "cache.set")
                  /\ req[r].zip = z
                  /\ req'[r].response.status = 200
                  /\ cache'[z].payload = req'[r].response.payload

C33_NeverEvicted == [][C33_Step]_vars

\* A request found the entry of its ZIP expired, treated it as a miss and
\* went on to the geo lookup: the expired entry is still in the map.
C33_Witness ==
    \E r \in Requests :
        /\ req[r].pc = "geoHeaders"
        /\ HasEntry(cache[req[r].zip])
        /\ ~Fresh(cache[req[r].zip], req[r].now)
        /\ PassesSchemaCheck(cache[req[r].zip].payload)

\* C35: every entry the cache holds carries a payload that passes the schema
\* check of a cache hit, and a request that finds an entry within the TTL is
\* answered in that very step with the entry's payload, its only access
\* being the cache read.
C35_StoredPasses ==
    \A z \in ValidZips :
        HasEntry(cache[z]) =>
            cache[z].payload.strategic_context \in {EmptyBuckets, SomeBuckets}

C35_Step ==
    \A r \in Requests : \A zip \in ValidZips :
        (GetRequest(r, zip) /\ Fresh(cache[zip], now))
        => /\ req'[r].pc = "done"
           /\ req'[r].response = PayloadResponse(cache[zip].payload)
           /\ req'[r].trace = {"cache.get"}
           /\ cache' = cache

C35_FreshEntryServed == [](C35_StoredPasses) /\ [][C35_Step]_vars

\* C35 witness: the entry was written by a run whose context branch fell
\* back to the empty buckets; a later request inside the TTL was answered
\* from it by the cache read alone.
C35_Witness ==
    \E r, s \in Requests :
        /\ s # r
        /\ req[s].pc = "done" /\ "cache.set" \in req[s].trace
        /\ cache[req[s].zip].payload.strategic_context = EmptyBuckets
        /\ req[r].pc = "done"
        /\ req[r].zip = req[s].zip
        /\ req[r].now > req[s].now
        /\ req[r].trace = {"cache.get"}
        /\ req[r].response = PayloadResponse(cache[req[r].zip].payload)

\* C37, in every step: the cache check reads the clock into the request,
\* and the request keeps that reading whatever time passes; the write
\* stores that reading with the request's own payload, so that from the
\* write on the entry is fresh for the TTL less the time the run took; and
\* a request answered from the cache began less than the TTL after the
\* request that produced the payload it gets.
C37_Step ==
    /\ \A r \in Requests :
          /\ Starts(r, "cache.get") => req'[r].now = now
          /\ "cache.get" \in req[r].trace => req'[r].now = req[r].now
          /\ Starts(r, "cache.set") =>
                LET entry == cache'[req[r].zip]
                    took == now - req[r].now
                IN  /\ entry.timestamp = req[r].now
                    /\ entry.payload = req'[r].response.payload
                    /\ took >= 0
                    /\ \A t \in now..(MaxTime + CACHE_TTL_MS) :
                          Fresh(entry, t) <=> t - now < CACHE_TTL_MS - took
    /\ \A r \in Requests : \A zip \in ValidZips :
          ( /\ GetRequest(r, zip)
            /\ req'[r].response.status = 200 )
          => \E s \in Requests \ {r} :
                /\ "cache.set" \in req[s].trace
                /\ req[s].zip = zip
                /\ req[s].response.payload = req'[r].response.payload
                /\ req'[r].now - req[s].now < CACHE_TTL_MS

C37_StampedAtCacheCheck == [][C37_Step]_vars

\* C37 witness: the entry carries the reading of a request that checked the
\* cache at one time, while a request for the same ZIP that checked the
\* cache later found nothing: the write came after the later check and
\* still stored the earlier reading.
C37_Witness ==
    \E r, s \in Requests :
        /\ s # r
        /\ req[s].zip = req[r].zip
        /\ "cache.set" \in req[s].trace
        /\ "cache.set" \notin req[r].trace
        /\ "geo" \in req[r].trace
        /\ req[r].now > req[s].now
        /\ req[r].now - req[s].now < CACHE_TTL_MS
        /\ cache[req[s].zip].timestamp = req[s].now

\* C38: in every step, the timestamp of every ZIP's cache entry stays or
\* grows.
C38_Step ==
    \A z \in ValidZips :
        HasEntry(cache[z]) => cache'[z].timestamp >= cache[z].timestamp

C38_TimestampNonDecreasing == [][C38_Step]_vars

\* C38 witness: two requests for one ZIP both missed and both wrote; the
\* entry carries the reading of the one that checked the cache earlier, so
\* its write came last and took the timestamp back.
C38_Witness ==
    \E r, s \in Requests :
        /\ req[r].zip = req[s].zip
        /\ "cache.set" \in req[r].trace
        /\ "cache.set" \in req[s].trace
        /\ req[r].now < req[s].now
        /\ cache[req[r].zip].timestamp = req[r].now
        /\ cache[req[r].zip].payload = req[r].response.payload

====
